---- MODULE Spec2Model ----
(***************************************************************************)
(* Vision-Language-Action core of hackathon-physical-ai-book:              *)
(*   ActionExecutor / SafetyProtocolEnforcer  (shared/action_executor.py)  *)
(*   CognitivePlanner                         (shared/planning_service.py) *)
(*                                                                         *)
(* Conventions                                                             *)
(*  - Python strings are sequences of one-character strings, so that       *)
(*    str.lower(), the `in` substring test and f-string formatting are     *)
(*    computed rather than assumed.                                        *)
(*  - A dictionary value (typing.Any) is a record [kind, s, n]: kind "str" *)
(*    carries the characters in s, kind "num" a fixed-point number in n    *)
(*    (tenths: 20 is 2.0), kind "pos" an opaque Position3D id in n.        *)
(*  - A dictionary is a function from the set of keys present to values.   *)
(*  - Durations are counted in twentieths of a second, so that             *)
(*    distance * 0.5 is exact for every distance in tenths of a metre.     *)
(*  - An optional value is a sequence of length 0 or 1.                    *)
(*  - Wall-clock fields (ActionResult.duration, execution_time,            *)
(*    ExecutionResult.id/timestamp) are not modelled: no decision in the   *)
(*    code reads them.                                                     *)
(***************************************************************************)
EXTENDS Integers, Sequences, FiniteSets, TLC

VARIABLES
    action_plan,          \* the ActionPlan object handed to the executor / enforcer
    config,               \* ExecutionConfig of the ActionExecutor
    pc,                   \* position of the execute_action_plan coroutine
    i,                    \* loop index of `for i, action in enumerate(...)`
    results,              \* the local list `results`
    execution_result,     \* optional: the ExecutionResult returned
    started,              \* history: indices for which _execute_single_action was entered
    in_progress,          \* history: indices entered and not yet returned
    safety_checks,        \* history: number of _check_safety_protocols calls
    robot_state,          \* RobotState argument of the enforcer
    environmental_context,\* EnvironmentalContext argument (enforcer and planner)
    checked,              \* optional: [action, safe] of the last check_action_safety call
    plan_before,          \* optional: the input plan as it was when enforce_... was called
    safe_plan,            \* optional: the plan returned by enforce_safety_constraints
    user_intent,          \* UserIntent argument of the planner
    planner_robot,        \* RobotState argument of the planner
    strategy,             \* PlanningStrategy argument of the planner
    clock,                \* int(datetime.now().timestamp()) seen by the planner
    generated,            \* optional: [raised, plan] outcome of generate_action_plan
    validation_errors,    \* optional: the list validate_action_plan returned
    retry_pc,             \* position of the robust_process_audio coroutine
    max_retries,          \* optional: the max_retries argument (absent when omitted)
    retries,              \* the local `retries`
    attempt,              \* loop variable of `for attempt in range(retries + 1)`
    last_error,           \* optional: message of the local `last_error`
    attempt_log,          \* history: attempts invoked, their outcomes, sleeps begun
    robust_result,        \* optional: the VoiceCommand robust_process_audio returned
    command_text,         \* text argument of process_text_command, as its words
    text_confidence,      \* confidence argument of process_text_command
    whisper_bound,        \* whether whisper_integration.whisper resolves
    text_result,          \* optional: the tuple process_text_command returned
    second_call,          \* optional: arguments and outcome of a second generate_action_plan call
    calls,                \* the coroutine frames of concurrent execute_action_plan calls
    audio_pc,             \* position of the process_audio_to_command coroutine
    audio_source,         \* its audio_source argument, by what it denotes
    validate,             \* its validate argument
    transcription,        \* optional: [text, confidence] from transcribe_audio_file
    audio_command,        \* optional: the local voice_command
    audio_result,         \* optional: the VoiceCommand process_audio_to_command returned
    steps,                \* SequentialWorkflow.steps
    workflow_pc,          \* position of the SequentialWorkflow.execute coroutine
    step_index,           \* position of `for step in self.steps`
    step_results,         \* the local dict step_results
    step_log,             \* history: [index, success] of every step.execute call
    workflow_result       \* optional: [success, step_results] returned by execute

vars == <<action_plan, config, pc, i, results, execution_result, started,
          in_progress, safety_checks, robot_state, environmental_context,
          checked, plan_before, safe_plan, user_intent, planner_robot,
          strategy, clock, generated, validation_errors, retry_pc, max_retries,
          retries, attempt, last_error, attempt_log, robust_result, command_text,
          text_confidence, whisper_bound, text_result, second_call, calls,
          audio_pc, audio_source, validate, transcription, audio_command,
          audio_result, steps, workflow_pc, step_index, step_results, step_log,
          workflow_result>>

exec_vars == <<config, pc, i, results, execution_result, started,
               in_progress, safety_checks>>

safety_vars == <<robot_state, checked, plan_before, safe_plan>>

planner_vars == <<user_intent, planner_robot, strategy, clock, generated>>

retry_vars == <<retry_pc, max_retries, retries, attempt, last_error, attempt_log,
                robust_result>>

text_vars == <<command_text, text_confidence, whisper_bound, text_result>>

pair_vars == <<second_call>>

concurrent_vars == <<calls>>

audio_vars == <<audio_pc, audio_source, validate, transcription, audio_command,
                audio_result>>

workflow_vars == <<steps, workflow_pc, step_index, step_results, step_log,
                   workflow_result>>

(***************************************************************************)
(* Bounds of the model                                                     *)
(***************************************************************************)
MaxPlanLen == 3

MaxObjects == 2

(***************************************************************************)
(* Strings                                                                 *)
(***************************************************************************)
UpperCase == <<"A","B","C","D","E","F","G","H","I","J","K","L","M",
               "N","O","P","Q","R","S","T","U","V","W","X","Y","Z">>

LowerCase == <<"a","b","c","d","e","f","g","h","i","j","k","l","m",
               "n","o","p","q","r","s","t","u","v","w","x","y","z">>

\* one character of str.lower()
LowerChar(c) ==
    IF \E k \in 1..Len(UpperCase) : UpperCase[k] = c
    THEN LowerCase[CHOOSE k \in 1..Len(UpperCase) : UpperCase[k] = c]
    ELSE c

\* str.lower()
Lower(s) == [k \in 1..Len(s) |-> LowerChar(s[k])]

\* `needle in hay` for two str
Contains(needle, hay) ==
    \E k \in 0..(Len(hay) - Len(needle)) :
        SubSeq(hay, k + 1, k + Len(needle)) = needle

Digit == <<"0","1","2","3","4","5","6","7","8","9">>

RECURSIVE IntToStr(_)
\* str(n) of a non-negative int, as an f-string formats it
IntToStr(n) ==
    IF n < 10 THEN <<Digit[n + 1]>>
    ELSE IntToStr(n \div 10) \o <<Digit[(n % 10) + 1]>>

(***************************************************************************)
(* Values and dictionaries                                                 *)
(***************************************************************************)
StrV(s) == [kind |-> "str", s |-> s, n |-> 0]

NumV(n) == [kind |-> "num", s |-> <<>>, n |-> n]

PosV(p) == [kind |-> "pos", s |-> <<>>, n |-> p]

\* dict.get(key, default)
Get(d, key, default) == IF key \in DOMAIN d THEN d[key] ELSE default

\* a key that is not in the dictionary
Absent == [kind |-> "absent", s |-> <<>>, n |-> 0]

\* the dictionary holding the keys of c that are present
DictOf(c) == [k \in {x \in DOMAIN c : c[x] # Absent} |-> c[k]]

\* all lists over S of length 0..n
SeqsUpTo(S, n) == UNION {[1..k -> S] : k \in 0..n}

(***************************************************************************)
(* models: ActionType, CommandStatus, Action, ActionPlan                   *)
(***************************************************************************)
\* ActionType members, by .value
ActionType == {"navigation", "manipulation", "detection"}

\* an Action.type that is a member of some other Enum (has .value, is no ActionType)
ForeignEnumMember == "foreign_enum_member"

\* an Action.type that is a plain str (no .value attribute)
PlainStrType == "plain_str"

\* CommandStatus members, by .value
CommandStatus == {"pending", "processing", "completed", "failed"}

Action(type, parameters, priority, dependencies) ==
    [type |-> type, parameters |-> parameters, priority |-> priority,
     dependencies |-> dependencies]

ActionPlan(id, voice_command_id, actions, status, created_at, estimated_duration) ==
    [id |-> id, voice_command_id |-> voice_command_id, actions |-> actions,
     status |-> status, created_at |-> created_at,
     estimated_duration |-> estimated_duration]

ActionResult(action_id, status, text, arg) ==
    [action_id |-> action_id, status |-> status,
     details |-> [text |-> text, arg |-> arg]]

ExecutionResult(action_plan_id, res, overall_status) ==
    [action_plan_id |-> action_plan_id, results |-> res,
     overall_status |-> overall_status]

(***************************************************************************)
(* ActionExecutor                                                          *)
(***************************************************************************)
\* string literals of action_executor.py
ExecLit ==
    [navigate_to |-> <<"n","a","v","i","g","a","t","e","_","t","o">>,
     move_direction |-> <<"m","o","v","e","_","d","i","r","e","c","t","i","o","n">>,
     move_toward |-> <<"m","o","v","e","_","t","o","w","a","r","d">>,
     move_forward |-> <<"m","o","v","e","_","f","o","r","w","a","r","d">>,
     stop |-> <<"s","t","o","p">>,
     pick_up |-> <<"p","i","c","k","_","u","p">>,
     grasp |-> <<"g","r","a","s","p">>,
     take |-> <<"t","a","k","e">>,
     grab |-> <<"g","r","a","b">>,
     place |-> <<"p","l","a","c","e">>,
     put_down |-> <<"p","u","t","_","d","o","w","n">>,
     release |-> <<"r","e","l","e","a","s","e">>,
     drop |-> <<"d","r","o","p">>,
     move_arm |-> <<"m","o","v","e","_","a","r","m">>,
     idle |-> <<"i","d","l","e">>,
     detect_objects |-> <<"d","e","t","e","c","t","_","o","b","j","e","c","t","s">>,
     scan_environment |-> <<"s","c","a","n","_","e","n","v","i","r","o","n","m","e","n","t">>,
     report_status |-> <<"r","e","p","o","r","t","_","s","t","a","t","u","s">>,
     search_for_object |-> <<"s","e","a","r","c","h","_","f","o","r","_","o","b","j","e","c","t">>,
     unknown |-> <<"u","n","k","n","o","w","n">>,
     navigation_action |-> <<"n","a","v","i","g","a","t","i","o","n","_","a","c","t","i","o","n">>,
     manipulation_action |-> <<"m","a","n","i","p","u","l","a","t","i","o","n","_","a","c","t","i","o","n">>,
     detection_action |-> <<"d","e","t","e","c","t","i","o","n","_","a","c","t","i","o","n">>]

\* f"action_{action_index}"
PositionalId(action_index) == <<"a","c","t","i","o","n","_">> \o IntToStr(action_index)

\* ActionExecutor._execute_navigation_action: [result, slept]
execute_navigation_action(action) ==
    LET action_params == action.parameters
        action_type == Get(action_params, "action", StrV(ExecLit.unknown))
        id == ExecLit.navigation_action
    IN  IF action_type = StrV(ExecLit.navigate_to)
        THEN [slept |-> TRUE,
              result |-> ActionResult(id, "success", "Navigated to ",
                  Get(action_params, "target_location", StrV(ExecLit.unknown)))]
        ELSE IF action_type = StrV(ExecLit.move_direction)
        THEN [slept |-> TRUE,
              result |-> ActionResult(id, "success", "Moved {direction} for ",
                  Get(action_params, "distance", NumV(10)))]
        ELSE IF action_type = StrV(ExecLit.move_toward)
        THEN [slept |-> TRUE,
              result |-> ActionResult(id, "success", "Moved toward ",
                  Get(action_params, "direction", StrV(<<"f","o","r","w","a","r","d">>)))]
        ELSE IF action_type = StrV(ExecLit.move_forward)
        THEN [slept |-> TRUE,
              result |-> ActionResult(id, "success", "Moved forward ",
                  Get(action_params, "distance", NumV(10)))]
        ELSE IF action_type = StrV(ExecLit.stop)
        THEN [slept |-> TRUE,
              result |-> ActionResult(id, "success", "Robot stopped", StrV(<<>>))]
        ELSE [slept |-> FALSE,
              result |-> ActionResult(id, "failed", "Unknown navigation action: ",
                  action_type)]

\* ActionExecutor._execute_manipulation_action: [result, slept]
execute_manipulation_action(action) ==
    LET action_params == action.parameters
        action_type == Get(action_params, "action", StrV(ExecLit.unknown))
        id == ExecLit.manipulation_action
    IN  IF action_type \in {StrV(ExecLit.pick_up), StrV(ExecLit.grasp),
                            StrV(ExecLit.take), StrV(ExecLit.grab)}
        THEN [slept |-> TRUE,
              result |-> ActionResult(id, "success", "Picked up ",
                  Get(action_params, "object_type", StrV(ExecLit.unknown)))]
        ELSE IF action_type \in {StrV(ExecLit.place), StrV(ExecLit.put_down),
                                 StrV(ExecLit.release), StrV(ExecLit.drop)}
        THEN [slept |-> TRUE,
              result |-> ActionResult(id, "success", "Object placed", StrV(<<>>))]
        ELSE IF action_type = StrV(ExecLit.move_arm)
        THEN [slept |-> TRUE,
              result |-> ActionResult(id, "success", "Arm moved to ",
                  Get(action_params, "position", StrV(<<"d","e","f","a","u","l","t">>)))]
        ELSE IF action_type = StrV(ExecLit.idle)
        THEN [slept |-> TRUE,
              result |-> ActionResult(id, "success", "Idling: ",
                  Get(action_params, "reason",
                      StrV(<<"n","o"," ","s","p","e","c","i","f","i","c"," ",
                             "r","e","a","s","o","n">>)))]
        ELSE [slept |-> FALSE,
              result |-> ActionResult(id, "failed", "Unknown manipulation action: ",
                  action_type)]

\* _execute_detection_action in which a missing "action" means scan_environment
execute_detection_action_default_scan(action) ==
    LET action_params == action.parameters
        action_type == Get(action_params, "action", StrV(ExecLit.scan_environment))
        id == ExecLit.detection_action
    IN  IF action_type = StrV(ExecLit.detect_objects)
        THEN [slept |-> TRUE,
              result |-> ActionResult(id, "success", "Completed detection of ",
                  Get(action_params, "object_type", StrV(<<"a","n","y">>)))]
        ELSE IF action_type = StrV(ExecLit.scan_environment)
        THEN [slept |-> TRUE,
              result |-> ActionResult(id, "success", "Environment scan completed",
                  StrV(<<>>))]
        ELSE IF action_type = StrV(ExecLit.report_status)
        THEN [slept |-> TRUE,
              result |-> ActionResult(id, "success", "Status reported", StrV(<<>>))]
        ELSE IF action_type = StrV(ExecLit.search_for_object)
        THEN [slept |-> TRUE,
              result |-> ActionResult(id, "success", "Search for ",
                  Get(action_params, "object_type", StrV(ExecLit.unknown)))]
        ELSE [slept |-> FALSE,
              result |-> ActionResult(id, "failed", "Unknown detection action: ",
                  action_type)]

\* ActionExecutor._execute_detection_action: [result, slept]
execute_detection_action(action) ==
    LET action_params == action.parameters
        action_type == Get(action_params, "action", StrV(ExecLit.unknown))
        id == ExecLit.detection_action
    IN  IF action_type = StrV(ExecLit.detect_objects)
        THEN [slept |-> TRUE,
              result |-> ActionResult(id, "success", "Completed detection of ",
                  Get(action_params, "object_type", StrV(<<"a","n","y">>)))]
        ELSE IF action_type = StrV(ExecLit.scan_environment)
        THEN [slept |-> TRUE,
              result |-> ActionResult(id, "success", "Environment scan completed",
                  StrV(<<>>))]
        ELSE IF action_type = StrV(ExecLit.report_status)
        THEN [slept |-> TRUE,
              result |-> ActionResult(id, "success", "Status reported", StrV(<<>>))]
        ELSE IF action_type = StrV(ExecLit.search_for_object)
        THEN [slept |-> TRUE,
              result |-> ActionResult(id, "success", "Search for ",
                  Get(action_params, "object_type", StrV(ExecLit.unknown)))]
        ELSE [slept |-> FALSE,
              result |-> ActionResult(id, "failed", "Unknown detection action: ",
                  action_type)]

\* _execute_single_action without its `except Exception`: the AttributeError escapes
execute_single_action_uncaught(action, action_index) ==
    [raised |-> action.type = PlainStrType, slept |-> FALSE,
     result |-> ActionResult(PositionalId(action_index), "failed",
                             "Unknown action type: ", StrV(<<>>))]

\* _execute_single_action refusing an action that declares a dependency
execute_single_action_checks_dependencies(action, action_index) ==
    LET action_id == PositionalId(action_index)
    IN  IF action.dependencies # <<>>
        THEN [raised |-> FALSE, slept |-> FALSE,
              result |-> ActionResult(action_id, "failed", "Unmet dependency: ",
                                      StrV(action.dependencies[1]))]
        ELSE IF action.type = PlainStrType
        THEN [raised |-> FALSE, slept |-> FALSE,
              result |-> ActionResult(action_id, "failed", "Error executing action: ",
                  StrV(<<"A","t","t","r","i","b","u","t","e","E","r","r","o","r">>))]
        ELSE LET inner ==
                   IF action.type = "navigation" THEN execute_navigation_action(action)
                   ELSE IF action.type = "manipulation"
                        THEN execute_manipulation_action(action)
                   ELSE IF action.type = "detection"
                        THEN execute_detection_action(action)
                   ELSE [slept |-> FALSE,
                         result |-> ActionResult(action_id, "failed",
                             "Unknown action type: ", StrV(<<>>))]
             IN  [raised |-> FALSE, slept |-> inner.slept, result |-> inner.result]

\* ActionExecutor._execute_single_action: [raised, slept, result].
\* action.type.value of a plain str raises AttributeError at the first logger
\* call inside the try; `except Exception` turns it into a failed result.
execute_single_action(action, action_index) ==
    LET action_id == PositionalId(action_index)
    IN  IF action.type = PlainStrType
        THEN [raised |-> FALSE, slept |-> FALSE,
              result |-> ActionResult(action_id, "failed", "Error executing action: ",
                  StrV(<<"A","t","t","r","i","b","u","t","e","E","r","r","o","r">>))]
        ELSE LET inner ==
                   IF action.type = "navigation" THEN execute_navigation_action(action)
                   ELSE IF action.type = "manipulation"
                        THEN execute_manipulation_action(action)
                   ELSE IF action.type = "detection"
                        THEN execute_detection_action(action)
                   ELSE [slept |-> FALSE,
                         result |-> ActionResult(action_id, "failed",
                             "Unknown action type: ", StrV(<<>>))]
             IN  [raised |-> FALSE, slept |-> inner.slept, result |-> inner.result]

\* overall status with the two tests in the other order: an empty list is a failure
OverallStatus_failure_first(res) ==
    LET successful_actions == Cardinality({k \in 1..Len(res) : res[k].status = "success"})
    IN  IF successful_actions = 0 THEN "failure"
        ELSE IF successful_actions = Len(res) THEN "success"
        ELSE "partial"

\* lines 81-83: overall status from the list of results
OverallStatus(res) ==
    LET successful_actions == Cardinality({k \in 1..Len(res) : res[k].status = "success"})
    IN  IF successful_actions = Len(res) THEN "success"
        ELSE IF successful_actions > 0 THEN "partial"
        ELSE "failure"

RECURSIVE ConcatAll(_)
\* the concatenation of a sequence of sequences
ConcatAll(ss) == IF ss = <<>> THEN <<>> ELSE Head(ss) \o ConcatAll(Tail(ss))

\* one entry of the list validate_action_plan returns: the literal part of the
\* message, the index i of f"Action {i}: ..." and the interpolated value
ValidationError(text, index, arg) == [text |-> text, index |-> index, arg |-> arg]

\* validate_action_plan without its loop over the dependencies
validate_action_plan_types_only(plan) ==
    LET n == Len(plan.actions)
        type_errors(k) ==
            IF plan.actions[k].type \notin ActionType
            THEN <<ValidationError("Invalid action type", <<k - 1>>,
                                   <<plan.actions[k].type>>)>>
            ELSE <<>>
    IN  (IF n = 0
         THEN <<ValidationError("Action plan has no actions", <<>>, <<>>)>>
         ELSE <<>>)
        \o ConcatAll([k \in 1..n |-> type_errors(k)])

\* ActionExecutor.validate_action_plan: the list of errors, in the order the
\* code appends them.  A dependency is valid when it equals the formatted
\* string f"action_{j}" for some j in range(len(actions)).
validate_action_plan(plan) ==
    LET n == Len(plan.actions)
        valid(dep) == \E j \in 0..(n - 1) : PositionalId(j) = dep
        type_errors(k) ==
            IF plan.actions[k].type \notin ActionType
            THEN <<ValidationError("Invalid action type", <<k - 1>>,
                                   <<plan.actions[k].type>>)>>
            ELSE <<>>
        dependency_errors(k) ==
            LET bad == SelectSeq(plan.actions[k].dependencies, LAMBDA dep : ~valid(dep))
            IN  [d \in 1..Len(bad) |->
                    ValidationError("Invalid dependency", <<k - 1>>, <<bad[d]>>)]
    IN  (IF n = 0
         THEN <<ValidationError("Action plan has no actions", <<>>, <<>>)>>
         ELSE <<>>)
        \o ConcatAll([k \in 1..n |-> type_errors(k) \o dependency_errors(k)])

(***************************************************************************)
(* SafetyProtocolEnforcer                                                  *)
(***************************************************************************)
\* line 484: battery_level < 0.1, in hundredths
LowBattery == 10

\* SafetyProtocolEnforcer._check_navigation_safety: both branches return True
check_navigation_safety(action, env) ==
    IF Len(env.obstacles) > 0 THEN TRUE ELSE TRUE

\* check_action_safety ignoring the battery level
check_action_safety_no_battery(action, rs, env) ==
    IF rs.safety_status = "unsafe" THEN FALSE
    ELSE IF action.type = "navigation" THEN check_navigation_safety(action, env)
    ELSE IF action.type = "manipulation"
            /\ "manipulation" \notin rs.available_capabilities THEN FALSE
    ELSE TRUE

\* check_action_safety with the presence of obstacles blocking navigation
check_action_safety_obstacles_block(action, rs, env) ==
    IF rs.battery_level < LowBattery THEN FALSE
    ELSE IF rs.safety_status = "unsafe" THEN FALSE
    ELSE IF action.type = "navigation" THEN Len(env.obstacles) = 0
    ELSE IF action.type = "manipulation"
            /\ "manipulation" \notin rs.available_capabilities THEN FALSE
    ELSE TRUE

\* SafetyProtocolEnforcer.check_action_safety
check_action_safety(action, rs, env) ==
    IF rs.battery_level < LowBattery THEN FALSE
    ELSE IF rs.safety_status = "unsafe" THEN FALSE
    ELSE IF action.type = "navigation" THEN check_navigation_safety(action, env)
    ELSE IF action.type = "manipulation"
            /\ "manipulation" \notin rs.available_capabilities THEN FALSE
    ELSE TRUE

\* f"safe_{action_plan.id}"
SafeId(id) == <<"s","a","f","e","_">> \o id

\* enforce_safety_constraints that drops the first action it meets instead of
\* the unsafe ones
enforce_safety_constraints_drop_first(plan, rs, env) ==
    ActionPlan(SafeId(plan.id), plan.voice_command_id,
               IF plan.actions = <<>> THEN <<>> ELSE Tail(plan.actions),
               plan.status, plan.created_at, plan.estimated_duration)

\* enforce_safety_constraints that keeps the id and resets the status
enforce_safety_constraints_same_id(plan, rs, env) ==
    ActionPlan(plan.id, plan.voice_command_id,
               SelectSeq(plan.actions, LAMBDA a : check_action_safety(a, rs, env)),
               "pending", plan.created_at, plan.estimated_duration)

\* SafetyProtocolEnforcer.enforce_safety_constraints: the plan returned
enforce_safety_constraints(plan, rs, env) ==
    LET safe_actions ==
            SelectSeq(plan.actions, LAMBDA a : check_action_safety(a, rs, env))
    IN  ActionPlan(SafeId(plan.id), plan.voice_command_id, safe_actions,
                   plan.status, plan.created_at, plan.estimated_duration)

(***************************************************************************)
(* CognitivePlanner                                                        *)
(***************************************************************************)
\* string literals of planning_service.py
PlanLit ==
    [navigation |-> <<"n","a","v","i","g","a","t","i","o","n">>,
     manipulation |-> <<"m","a","n","i","p","u","l","a","t","i","o","n">>,
     detection |-> <<"d","e","t","e","c","t","i","o","n">>,
     status |-> <<"s","t","a","t","u","s">>,
     stop |-> <<"s","t","o","p">>,
     navigate_to |-> <<"n","a","v","i","g","a","t","e","_","t","o">>,
     move_direction |-> <<"m","o","v","e","_","d","i","r","e","c","t","i","o","n">>,
     move_toward |-> <<"m","o","v","e","_","t","o","w","a","r","d">>,
     move_forward |-> <<"m","o","v","e","_","f","o","r","w","a","r","d">>,
     wait |-> <<"w","a","i","t">>,
     unrecognized_intent |-> <<"u","n","r","e","c","o","g","n","i","z","e","d","_","i","n","t","e","n","t">>,
     idle |-> <<"i","d","l","e">>,
     insufficient_parameters |-> <<"i","n","s","u","f","f","i","c","i","e","n","t","_","p","a","r","a","m","e","t","e","r","s">>,
     search_for_object |-> <<"s","e","a","r","c","h","_","f","o","r","_","o","b","j","e","c","t">>,
     detect_objects |-> <<"d","e","t","e","c","t","_","o","b","j","e","c","t","s">>,
     current_area |-> <<"c","u","r","r","e","n","t","_","a","r","e","a">>,
     scan_environment |-> <<"s","c","a","n","_","e","n","v","i","r","o","n","m","e","n","t">>,
     report_status |-> <<"r","e","p","o","r","t","_","s","t","a","t","u","s">>]

\* PlanningStrategy members, by .value
PlanningStrategy == {"sequential", "parallel", "hierarchical"}

\* CognitivePlanner._generate_navigation_actions
generate_navigation_actions(parameters, env, rs) ==
    IF "location" \in DOMAIN parameters
    THEN <<Action("navigation",
                  [action |-> StrV(PlanLit.navigate_to),
                   target_location |-> parameters["location"],
                   current_position |-> PosV(rs.position)], 1, <<>>)>>
    ELSE IF "direction" \in DOMAIN parameters /\ "distance" \in DOMAIN parameters
    THEN <<Action("navigation",
                  [action |-> StrV(PlanLit.move_direction),
                   direction |-> parameters["direction"],
                   distance |-> parameters["distance"],
                   current_position |-> PosV(rs.position)], 1, <<>>)>>
    ELSE IF "direction" \in DOMAIN parameters
    THEN <<Action("navigation",
                  [action |-> StrV(PlanLit.move_toward),
                   direction |-> parameters["direction"],
                   current_position |-> PosV(rs.position)], 1, <<>>)>>
    ELSE <<Action("navigation",
                  [action |-> StrV(PlanLit.move_forward),
                   distance |-> NumV(10)], 1, <<>>)>>

\* the object search without the two .lower() calls
FirstMatch_case_sensitive(object_name, objects) ==
    LET hits == {k \in 1..Len(objects) : Contains(object_name.s, objects[k].type)}
    IN  IF hits = {} THEN 0 ELSE CHOOSE k \in hits : \A m \in hits : k <= m

\* lines 230-234: the first object whose type contains the name, both
\* lower-cased; 0 when there is none
FirstMatch(object_name, objects) ==
    LET hits == {k \in 1..Len(objects) :
                    Contains(Lower(object_name.s), Lower(objects[k].type))}
    IN  IF hits = {} THEN 0 ELSE CHOOSE k \in hits : \A m \in hits : k <= m

\* _generate_manipulation_actions whose dependency names the declaring action itself
generate_manipulation_actions_self_dependency(parameters, env, rs) ==
    IF "object" \in DOMAIN parameters /\ "action" \in DOMAIN parameters
    THEN LET object_name == parameters["object"]
             manipulation_action == parameters["action"]
         IN  IF object_name.kind # "str" /\ Len(env.objects) > 0
             THEN [raised |-> TRUE, actions |-> <<>>]
             ELSE LET found == IF object_name.kind = "str"
                               THEN FirstMatch(object_name, env.objects) ELSE 0
                  IN  IF found # 0
                      THEN LET target_object == env.objects[found]
                               nav == Action("navigation",
                                        [action |-> StrV(PlanLit.navigate_to),
                                         target_position |-> PosV(target_object.position),
                                         approach_distance |-> NumV(5)], 1, <<>>)
                               man == Action("manipulation",
                                        [action |-> manipulation_action,
                                         object_id |-> StrV(target_object.id),
                                         object_type |-> StrV(target_object.type),
                                         object_position |-> PosV(target_object.position)],
                                        2, <<PositionalId(Len(<<nav>>))>>)
                           IN  [raised |-> FALSE, actions |-> <<nav, man>>]
                      ELSE [raised |-> FALSE,
                            actions |-> <<Action("detection",
                                [action |-> StrV(PlanLit.search_for_object),
                                 object_type |-> object_name], 1, <<>>)>>]
    ELSE [raised |-> FALSE,
          actions |-> <<Action("manipulation",
              [action |-> StrV(PlanLit.idle),
               reason |-> StrV(PlanLit.insufficient_parameters)], 1, <<>>)>>]

\* CognitivePlanner._generate_manipulation_actions: [raised, actions].
\* object_name.lower() raises AttributeError for a name that is no str, as
\* soon as the loop over environment.objects runs once.
generate_manipulation_actions(parameters, env, rs) ==
    IF "object" \in DOMAIN parameters /\ "action" \in DOMAIN parameters
    THEN LET object_name == parameters["object"]
             manipulation_action == parameters["action"]
         IN  IF object_name.kind # "str" /\ Len(env.objects) > 0
             THEN [raised |-> TRUE, actions |-> <<>>]
             ELSE LET found == IF object_name.kind = "str"
                               THEN FirstMatch(object_name, env.objects) ELSE 0
                  IN  IF found # 0
                      THEN LET target_object == env.objects[found]
                               nav == Action("navigation",
                                        [action |-> StrV(PlanLit.navigate_to),
                                         target_position |-> PosV(target_object.position),
                                         approach_distance |-> NumV(5)], 1, <<>>)
                               man == Action("manipulation",
                                        [action |-> manipulation_action,
                                         object_id |-> StrV(target_object.id),
                                         object_type |-> StrV(target_object.type),
                                         object_position |-> PosV(target_object.position)],
                                        2, <<PositionalId(Len(<<nav>>) - 1)>>)
                           IN  [raised |-> FALSE, actions |-> <<nav, man>>]
                      ELSE [raised |-> FALSE,
                            actions |-> <<Action("detection",
                                [action |-> StrV(PlanLit.search_for_object),
                                 object_type |-> object_name], 1, <<>>)>>]
    ELSE [raised |-> FALSE,
          actions |-> <<Action("manipulation",
              [action |-> StrV(PlanLit.idle),
               reason |-> StrV(PlanLit.insufficient_parameters)], 1, <<>>)>>]

\* CognitivePlanner._generate_detection_actions
generate_detection_actions(parameters, env, rs) ==
    IF "object_type" \in DOMAIN parameters
    THEN <<Action("detection",
                  [action |-> StrV(PlanLit.detect_objects),
                   object_type |-> parameters["object_type"],
                   search_area |-> Get(parameters, "location",
                                       StrV(PlanLit.current_area))], 1, <<>>)>>
    ELSE <<Action("detection", [action |-> StrV(PlanLit.scan_environment)], 1, <<>>)>>

\* CognitivePlanner._generate_status_actions
generate_status_actions ==
    <<Action("detection", [action |-> StrV(PlanLit.report_status)], 1, <<>>)>>

\* _generate_actions_from_intent whose fallback branch returns no action
generate_actions_from_intent_empty_fallback(intent, env, rs, strat) ==
    LET primary_intent == Lower(intent.primary_intent)
        parameters == intent.parameters
    IN  IF primary_intent = PlanLit.navigation
        THEN [raised |-> FALSE,
              actions |-> generate_navigation_actions(parameters, env, rs)]
        ELSE IF primary_intent = PlanLit.manipulation
        THEN generate_manipulation_actions(parameters, env, rs)
        ELSE IF primary_intent = PlanLit.detection
        THEN [raised |-> FALSE,
              actions |-> generate_detection_actions(parameters, env, rs)]
        ELSE IF primary_intent = PlanLit.status
        THEN [raised |-> FALSE, actions |-> generate_status_actions]
        ELSE IF primary_intent = PlanLit.stop
        THEN [raised |-> FALSE,
              actions |-> <<Action("navigation", [action |-> StrV(PlanLit.stop)],
                                   1, <<>>)>>]
        ELSE [raised |-> FALSE, actions |-> <<>>]

\* _generate_actions_from_intent comparing primary_intent as given, not lower-cased
generate_actions_from_intent_case_sensitive(intent, env, rs, strat) ==
    LET primary_intent == intent.primary_intent
        parameters == intent.parameters
    IN  IF primary_intent = PlanLit.navigation
        THEN [raised |-> FALSE,
              actions |-> generate_navigation_actions(parameters, env, rs)]
        ELSE IF primary_intent = PlanLit.manipulation
        THEN generate_manipulation_actions(parameters, env, rs)
        ELSE IF primary_intent = PlanLit.detection
        THEN [raised |-> FALSE,
              actions |-> generate_detection_actions(parameters, env, rs)]
        ELSE IF primary_intent = PlanLit.status
        THEN [raised |-> FALSE, actions |-> generate_status_actions]
        ELSE IF primary_intent = PlanLit.stop
        THEN [raised |-> FALSE,
              actions |-> <<Action("navigation", [action |-> StrV(PlanLit.stop)],
                                   1, <<>>)>>]
        ELSE [raised |-> FALSE,
              actions |-> <<Action("navigation",
                  [action |-> StrV(PlanLit.wait),
                   reason |-> StrV(PlanLit.unrecognized_intent)], 1, <<>>)>>]

\* CognitivePlanner._generate_actions_from_intent: [raised, actions]
generate_actions_from_intent(intent, env, rs, strat) ==
    LET primary_intent == Lower(intent.primary_intent)
        parameters == intent.parameters
    IN  IF primary_intent = PlanLit.navigation
        THEN [raised |-> FALSE,
              actions |-> generate_navigation_actions(parameters, env, rs)]
        ELSE IF primary_intent = PlanLit.manipulation
        THEN generate_manipulation_actions(parameters, env, rs)
        ELSE IF primary_intent = PlanLit.detection
        THEN [raised |-> FALSE,
              actions |-> generate_detection_actions(parameters, env, rs)]
        ELSE IF primary_intent = PlanLit.status
        THEN [raised |-> FALSE, actions |-> generate_status_actions]
        ELSE IF primary_intent = PlanLit.stop
        THEN [raised |-> FALSE,
              actions |-> <<Action("navigation", [action |-> StrV(PlanLit.stop)],
                                   1, <<>>)>>]
        ELSE [raised |-> FALSE,
              actions |-> <<Action("navigation",
                  [action |-> StrV(PlanLit.wait),
                   reason |-> StrV(PlanLit.unrecognized_intent)], 1, <<>>)>>]

RECURSIVE SumOver(_, _)
\* sum of f[k] for k in S
SumOver(f, S) ==
    IF S = {} THEN 0
    ELSE LET k == CHOOSE x \in S : TRUE IN f[k] + SumOver(f, S \ {k})

\* _estimate_duration in which a navigation action without "distance" adds nothing
estimate_duration_no_default(actions) ==
    LET distance(a) == Get(a.parameters, "distance", NumV(0))
        extra == [k \in 1..Len(actions) |->
                    IF actions[k].type = "manipulation" THEN 60
                    ELSE IF actions[k].type = "navigation"
                         THEN distance(actions[k]).n
                    ELSE 0]
    IN  IF \E k \in 1..Len(actions) :
               actions[k].type = "navigation" /\ distance(actions[k]).kind # "num"
        THEN [raised |-> TRUE, value |-> 0]
        ELSE [raised |-> FALSE,
              value |-> Len(actions) * 100 + SumOver(extra, 1..Len(actions))]

\* CognitivePlanner._estimate_duration: [raised, value], value in twentieths of
\* a second.  distance * 0.5 raises TypeError unless distance is a number.
estimate_duration(actions) ==
    LET distance(a) == Get(a.parameters, "distance", NumV(10))
        extra == [k \in 1..Len(actions) |->
                    IF actions[k].type = "manipulation" THEN 60
                    ELSE IF actions[k].type = "navigation"
                         THEN distance(actions[k]).n
                    ELSE 0]
    IN  IF \E k \in 1..Len(actions) :
               actions[k].type = "navigation" /\ distance(actions[k]).kind # "num"
        THEN [raised |-> TRUE, value |-> 0]
        ELSE [raised |-> FALSE,
              value |-> Len(actions) * 100 + SumOver(extra, 1..Len(actions))]

\* f"ap_{int(datetime.now().timestamp())}"
PlanId(now) == <<"a","p","_">> \o IntToStr(now)

\* CognitivePlanner.generate_action_plan: [raised, plan]; every exception is
\* logged and re-raised (lines 80-82)
generate_action_plan(voice_command_id, intent, env, rs, strat, now) ==
    LET gen == generate_actions_from_intent(intent, env, rs, strat)
        est == estimate_duration(gen.actions)
    IN  IF gen.raised \/ est.raised
        THEN [raised |-> TRUE, plan |-> <<>>]
        ELSE [raised |-> FALSE,
              plan |-> <<ActionPlan(PlanId(now), voice_command_id, gen.actions,
                                    "pending", now, est.value)>>]

(***************************************************************************)
(* Inputs of the executor and of the enforcer                              *)
(***************************************************************************)
\* the actions plans are built from: every ActionType, recognised and
\* unrecognised sub-action names, a missing "action" key, a name that belongs
\* to another type's table, non-member types, and dependency lists that are
\* empty, valid and dangling
ActionPool ==
    {Action("navigation", [action |-> StrV(ExecLit.navigate_to)], 1, <<>>),
     Action("navigation", [action |-> StrV(<<"w","a","i","t">>)], 1, <<>>),
     Action("navigation", [action |-> StrV(ExecLit.pick_up)], 1, <<PositionalId(5)>>),
     Action("manipulation", [action |-> StrV(ExecLit.pick_up)], 2, <<PositionalId(0)>>),
     Action("detection", [action |-> StrV(ExecLit.scan_environment)], 1, <<>>),
     Action("detection", [reason |-> StrV(<<"n","o","n","e">>)], 1, <<>>),
     Action(ForeignEnumMember, [action |-> StrV(ExecLit.stop)], 1, <<>>),
     Action(PlainStrType, [action |-> StrV(ExecLit.stop)], 1, <<>>)}

InputPlans ==
    {ActionPlan(<<"a","p","_","7">>, <<"v","c","_","1">>, actions, "pending", 7, 0) :
        actions \in SeqsUpTo(ActionPool, MaxPlanLen)}

\* state of the components a specification does not exercise
InitExecIdle ==
    /\ config = <<>>
    /\ pc = "idle"
    /\ i = 0
    /\ results = <<>>
    /\ execution_result = <<>>
    /\ started = <<>>
    /\ in_progress = {}
    /\ safety_checks = 0

InitSafetyIdle ==
    /\ robot_state = <<>>
    /\ checked = <<>>
    /\ plan_before = <<>>
    /\ safe_plan = <<>>

InitPlannerIdle ==
    /\ user_intent = <<>>
    /\ planner_robot = <<>>
    /\ strategy = <<>>
    /\ clock = 0
    /\ generated = <<>>

InitRetryIdle ==
    /\ retry_pc = "idle"
    /\ max_retries = <<>>
    /\ retries = 0
    /\ attempt = 0
    /\ last_error = <<>>
    /\ attempt_log = <<>>
    /\ robust_result = <<>>

InitTextIdle ==
    /\ command_text = <<>>
    /\ text_confidence = 0
    /\ whisper_bound = FALSE
    /\ text_result = <<>>

InitPairIdle == second_call = <<>>

InitConcurrentIdle == calls = <<>>

InitAudioIdle ==
    /\ audio_pc = "idle"
    /\ audio_source = ""
    /\ validate = FALSE
    /\ transcription = <<>>
    /\ audio_command = <<>>
    /\ audio_result = <<>>

InitWorkflowIdle ==
    /\ steps = <<>>
    /\ workflow_pc = "idle"
    /\ step_index = 0
    /\ step_results = <<>>
    /\ step_log = <<>>
    /\ workflow_result = <<>>

(***************************************************************************)
(* execute_action_plan as a coroutine                                      *)
(***************************************************************************)
InitExec ==
    /\ action_plan \in InputPlans
    /\ config \in [enable_safety_protocols : BOOLEAN]
    /\ pc = "idle"
    /\ i = 0
    /\ results = <<>>
    /\ execution_result = <<>>
    /\ started = <<>>
    /\ in_progress = {}
    /\ safety_checks = 0
    /\ environmental_context = <<>>
    /\ validation_errors = <<>>
    /\ InitSafetyIdle
    /\ InitPlannerIdle
    /\ InitRetryIdle
    /\ InitTextIdle
    /\ InitPairIdle
    /\ InitConcurrentIdle
    /\ InitAudioIdle
    /\ InitWorkflowIdle

\* what no step of the executor touches
ExecFrame ==
    UNCHANGED <<environmental_context, robot_state, checked, plan_before, safe_plan,
                user_intent, planner_robot, strategy, clock, generated,
                validation_errors, retry_vars, text_vars, pair_vars, concurrent_vars,
                audio_vars, workflow_vars>>

\* lines 53-60: status := PROCESSING, results := []
ExecuteActionPlanStart ==
    /\ ExecFrame
    /\ pc = "idle"
    /\ action_plan' = [action_plan EXCEPT !.status = "processing"]
    /\ results' = <<>>
    /\ i' = 0
    /\ pc' = "loop"
    /\ UNCHANGED <<config, execution_result, started, in_progress, safety_checks>>

\* line 70 up to the asyncio.sleep of a recognised sub-action
ExecuteSingleActionSleep ==
    /\ ExecFrame
    /\ pc = "loop"
    /\ i < Len(action_plan.actions)
    /\ execute_single_action(action_plan.actions[i + 1], i).slept
    /\ started' = Append(started, i)
    /\ in_progress' = in_progress \cup {i}
    /\ pc' = "sleeping"
    /\ UNCHANGED <<action_plan, config, i, results, execution_result, safety_checks>>

\* the sleep is over: _execute_single_action returns (or raises), lines 70-71
ExecuteSingleActionWake ==
    /\ ExecFrame
    /\ pc = "sleeping"
    /\ LET out == execute_single_action(action_plan.actions[i + 1], i)
       IN  IF out.raised
           THEN /\ pc' = "raised"
                /\ UNCHANGED results
           ELSE /\ pc' = "appended"
                /\ results' = Append(results, out.result)
    /\ in_progress' = in_progress \ {i}
    /\ UNCHANGED <<action_plan, config, i, execution_result, started, safety_checks>>

\* lines 70-71 for an action that reaches no sleep: no suspension point
ExecuteSingleActionNoSleep ==
    /\ ExecFrame
    /\ pc = "loop"
    /\ i < Len(action_plan.actions)
    /\ LET out == execute_single_action(action_plan.actions[i + 1], i)
       IN  /\ ~out.slept
           /\ IF out.raised
              THEN /\ pc' = "raised"
                   /\ UNCHANGED results
              ELSE /\ pc' = "appended"
                   /\ results' = Append(results, out.result)
    /\ started' = Append(started, i)
    /\ UNCHANGED <<action_plan, config, i, execution_result, in_progress, safety_checks>>

\* the safety check skipped once the last action has run
CheckSafetyProtocols_not_after_last ==
    /\ ExecFrame
    /\ pc = "appended"
    /\ config.enable_safety_protocols
    /\ safety_checks' = IF i + 1 = Len(action_plan.actions)
                        THEN safety_checks ELSE safety_checks + 1
    /\ i' = i + 1
    /\ pc' = "loop"
    /\ UNCHANGED <<action_plan, config, results, execution_result, started, in_progress>>

\* lines 74-75 with enable_safety_protocols: _check_safety_protocols only logs
CheckSafetyProtocols ==
    /\ ExecFrame
    /\ pc = "appended"
    /\ config.enable_safety_protocols
    /\ safety_checks' = safety_checks + 1
    /\ i' = i + 1
    /\ pc' = "loop"
    /\ UNCHANGED <<action_plan, config, results, execution_result, started, in_progress>>

\* the loop with a `break` after a failed action
NextIteration_break_on_failure ==
    /\ ExecFrame
    /\ pc = "appended"
    /\ ~config.enable_safety_protocols
    /\ i' = IF results[Len(results)].status = "failed"
            THEN Len(action_plan.actions) ELSE i + 1
    /\ pc' = "loop"
    /\ UNCHANGED <<action_plan, config, results, execution_result, started,
                   in_progress, safety_checks>>

\* line 74 without enable_safety_protocols: straight to the next iteration
NextIteration ==
    /\ ExecFrame
    /\ pc = "appended"
    /\ ~config.enable_safety_protocols
    /\ i' = i + 1
    /\ pc' = "loop"
    /\ UNCHANGED <<action_plan, config, results, execution_result, started,
                   in_progress, safety_checks>>

\* a return that also settles the plan: COMPLETED unless the execution failed
ExecuteActionPlanReturn_settles_plan ==
    /\ ExecFrame
    /\ pc = "loop"
    /\ i = Len(action_plan.actions)
    /\ execution_result' =
           <<ExecutionResult(action_plan.id, results, OverallStatus(results))>>
    /\ action_plan' = [action_plan EXCEPT !.status =
                          IF OverallStatus(results) = "failure"
                          THEN "failed" ELSE "completed"]
    /\ pc' = "returned"
    /\ UNCHANGED <<config, i, results, started, in_progress, safety_checks>>

\* lines 77-96: the loop is exhausted, build and return the ExecutionResult
ExecuteActionPlanReturn ==
    /\ ExecFrame
    /\ pc = "loop"
    /\ i = Len(action_plan.actions)
    /\ execution_result' =
           <<ExecutionResult(action_plan.id, results, OverallStatus(results))>>
    /\ pc' = "returned"
    /\ UNCHANGED <<action_plan, config, i, results, started, in_progress, safety_checks>>

NextExec ==
    \/ ExecuteActionPlanStart
    \/ ExecuteSingleActionSleep
    \/ ExecuteSingleActionWake
    \/ ExecuteSingleActionNoSleep
    \/ CheckSafetyProtocols
    \/ NextIteration
    \/ ExecuteActionPlanReturn

SpecExec == InitExec /\ [][NextExec]_vars

(***************************************************************************)
(* execute_action_plan on every (type, sub-action) pair                    *)
(***************************************************************************)
\* every sub-action name some executor compares against, a name none knows,
\* and no name at all
SubActionChoices ==
    {StrV(ExecLit[f]) : f \in DOMAIN ExecLit \ {"unknown", "navigation_action",
                                                "manipulation_action",
                                                "detection_action"}}
    \cup {StrV(<<"w","a","i","t">>), Absent}

\* one-action plans, one for every ActionType and every choice of name
DispatchPlans ==
    {ActionPlan(<<"a","p","_","7">>, <<"v","c","_","1">>,
                <<Action(t, DictOf([action |-> name]), 1, <<>>)>>, "pending", 7, 0) :
        t \in ActionType, name \in SubActionChoices}

InitDispatch ==
    /\ action_plan \in DispatchPlans
    /\ config \in [enable_safety_protocols : BOOLEAN]
    /\ environmental_context = <<>>
    /\ validation_errors = <<>>
    /\ pc = "idle"
    /\ i = 0
    /\ results = <<>>
    /\ execution_result = <<>>
    /\ started = <<>>
    /\ in_progress = {}
    /\ safety_checks = 0
    /\ InitSafetyIdle
    /\ InitPlannerIdle
    /\ InitRetryIdle
    /\ InitTextIdle
    /\ InitPairIdle
    /\ InitConcurrentIdle
    /\ InitAudioIdle
    /\ InitWorkflowIdle

SpecDispatch == InitDispatch /\ [][NextExec]_vars

(***************************************************************************)
(* Concurrent execute_action_plan calls on one ActionExecutor              *)
(***************************************************************************)
\* The instance holds self.logger and self.config only, and no step assigns
\* either; everything else a call uses is local to its coroutine frame or is
\* the plan it was given.  A frame is [action_plan, pc, i, results,
\* execution_result].  Between two awaits that suspend (the asyncio.sleep of a
\* recognised sub-action) a coroutine runs without interruption.

\* actions that sleep and succeed, and one that fails without sleeping
ConcurrentPlans ==
    [id : {<<"a","p","_","7">>}, voice_command_id : {<<"v","c","_","1">>},
     actions : SeqsUpTo({Action("navigation", [action |-> StrV(ExecLit.navigate_to)], 1, <<>>),
                         Action("navigation", [action |-> StrV(<<"w","a","i","t">>)], 1, <<>>),
                         Action("manipulation", [action |-> StrV(ExecLit.pick_up)], 2,
                                <<PositionalId(0)>>)}, 2),
     status : {"pending"}, created_at : {7}, estimated_duration : {0}]

RECURSIVE RunToSuspension(_, _, _)
\* lines 63-96 from the top of iteration k with the results so far: the frame
\* at the next sleep, or at the return
RunToSuspension(plan, k, res) ==
    IF k = Len(plan.actions)
    THEN [action_plan |-> plan, pc |-> "returned", i |-> k, results |-> res,
          execution_result |->
              <<ExecutionResult(plan.id, res, OverallStatus(res))>>]
    ELSE IF execute_single_action(plan.actions[k + 1], k).slept
    THEN [action_plan |-> plan, pc |-> "sleeping", i |-> k, results |-> res,
          execution_result |-> <<>>]
    ELSE RunToSuspension(plan, k + 1,
             Append(res, execute_single_action(plan.actions[k + 1], k).result))

InitConcurrent ==
    /\ calls \in {[c \in 1..2 |->
                      [action_plan |-> [p[c] EXCEPT !.id = p[c].id \o IntToStr(c)],
                       pc |-> "idle", i |-> 0, results |-> <<>>,
                       execution_result |-> <<>>]] :
                  p \in [1..2 -> ConcurrentPlans]}
    /\ action_plan = <<>>
    /\ environmental_context = <<>>
    /\ validation_errors = <<>>
    /\ InitExecIdle
    /\ InitSafetyIdle
    /\ InitPlannerIdle
    /\ InitRetryIdle
    /\ InitTextIdle
    /\ InitPairIdle
    /\ InitAudioIdle
    /\ InitWorkflowIdle

\* what no concurrent call touches
ConcurrentFrame ==
    UNCHANGED <<action_plan, exec_vars, safety_vars, environmental_context,
                planner_vars, validation_errors, retry_vars, text_vars, pair_vars,
                audio_vars, workflow_vars>>

\* the call with `results` kept on the instance: starting a call empties the
\* list the other call appends to
CallStart_shared_results(c) ==
    /\ ConcurrentFrame
    /\ calls[c].pc = "idle"
    /\ calls' = [d \in DOMAIN calls |->
                    IF d = c
                    THEN RunToSuspension(
                             [calls[c].action_plan EXCEPT !.status = "processing"],
                             0, <<>>)
                    ELSE [calls[d] EXCEPT !.results = <<>>]]

\* lines 53-60 and on to the first suspension: status := PROCESSING,
\* results := []
CallStart(c) ==
    /\ ConcurrentFrame
    /\ calls[c].pc = "idle"
    /\ calls' = [calls EXCEPT ![c] =
                    RunToSuspension(
                        [calls[c].action_plan EXCEPT !.status = "processing"],
                        0, <<>>)]

\* the sleep of action i is over: its result is appended (line 71) and the
\* call runs on to its next suspension
CallResume(c) ==
    /\ ConcurrentFrame
    /\ calls[c].pc = "sleeping"
    /\ calls' = [calls EXCEPT ![c] =
                    RunToSuspension(
                        calls[c].action_plan, calls[c].i + 1,
                        Append(calls[c].results,
                               execute_single_action(
                                   calls[c].action_plan.actions[calls[c].i + 1],
                                   calls[c].i).result))]

NextConcurrent ==
    \/ \E c \in DOMAIN calls : CallStart(c)
    \/ \E c \in DOMAIN calls : CallResume(c)

SpecConcurrent == InitConcurrent /\ [][NextConcurrent]_vars

(***************************************************************************)
(* The enforcer applied to bounded inputs                                  *)
(***************************************************************************)
\* Action.type is an Enum member here (models.Action): only the executor
\* guards against anything else
EnforcerPlans ==
    {ActionPlan(<<"a","p","_","7">>, <<"v","c","_","1">>, actions, status, 7, 0) :
        actions \in SeqsUpTo({a \in ActionPool : a.type # PlainStrType}, MaxPlanLen),
        status \in {"pending", "processing"}}

\* battery_level in hundredths
RobotStates ==
    [position : {0},
     battery_level : {0, 9, 10, 100},
     available_capabilities : {{"navigation"}, {"navigation", "manipulation"}},
     safety_status : {"safe", "unsafe"}]

SafetyEnvironments ==
    [objects : {<<>>}, obstacles : {<<>>, <<[position |-> 1]>>}, robot_position : {0}]

InitSafety ==
    /\ action_plan \in EnforcerPlans
    /\ robot_state \in RobotStates
    /\ environmental_context \in SafetyEnvironments
    /\ checked = <<>>
    /\ plan_before = <<>>
    /\ safe_plan = <<>>
    /\ validation_errors = <<>>
    /\ InitExecIdle
    /\ InitPlannerIdle
    /\ InitRetryIdle
    /\ InitTextIdle
    /\ InitPairIdle
    /\ InitConcurrentIdle
    /\ InitAudioIdle
    /\ InitWorkflowIdle

\* what no step of the enforcer touches
SafetyFrame ==
    UNCHANGED <<config, pc, i, results, execution_result, started, in_progress,
                safety_checks, robot_state, environmental_context,
                user_intent, planner_robot, strategy, clock, generated,
                validation_errors, retry_vars, text_vars, pair_vars, concurrent_vars,
                audio_vars, workflow_vars>>

\* one call of check_action_safety on an action of the plan
CheckActionSafety ==
    /\ SafetyFrame
    /\ checked = <<>>
    /\ safe_plan = <<>>
    /\ \E k \in 1..Len(action_plan.actions) :
           checked' = <<[action |-> action_plan.actions[k],
                         safe |-> check_action_safety(action_plan.actions[k],
                                      robot_state, environmental_context)]>>
    /\ UNCHANGED <<action_plan, plan_before, safe_plan>>

\* one call of enforce_safety_constraints: lines 544-562 build a new list and
\* a new ActionPlan and assign nothing to the argument
EnforceSafetyConstraints ==
    /\ SafetyFrame
    /\ checked = <<>>
    /\ safe_plan = <<>>
    /\ plan_before' = <<action_plan>>
    /\ safe_plan' =
           <<enforce_safety_constraints(action_plan, robot_state, environmental_context)>>
    /\ UNCHANGED <<action_plan, checked>>

NextSafety ==
    \/ CheckActionSafety
    \/ EnforceSafetyConstraints

SpecSafety == InitSafety /\ [][NextSafety]_vars

(***************************************************************************)
(* The enforcer applied to plans whose dependencies are well-formed        *)
(***************************************************************************)
\* one action of each ActionType, depending on nothing or on one position
OrderedActions ==
    {Action(t.type, [action |-> StrV(t.name)], 1, deps) :
        t \in {[type |-> "navigation", name |-> ExecLit.navigate_to],
               [type |-> "manipulation", name |-> ExecLit.pick_up],
               [type |-> "detection", name |-> ExecLit.scan_environment]},
        deps \in {<<>>} \cup {<<PositionalId(j)>> : j \in 0..(MaxPlanLen - 2)}}

\* every dependency is "action_<j>" for an earlier position j of the list
WellFormed(actions) ==
    \A k \in 1..Len(actions) :
        \A d \in 1..Len(actions[k].dependencies) :
            \E j \in 0..(k - 2) : actions[k].dependencies[d] = PositionalId(j)

OrderedPlans ==
    {ActionPlan(<<"a","p","_","7">>, <<"v","c","_","1">>, actions, "pending", 7, 0) :
        actions \in {s \in SeqsUpTo(OrderedActions, MaxPlanLen) : WellFormed(s)}}

\* a robot that blocks nothing, one that blocks manipulation, one that blocks all
OrderedRobots ==
    {rs \in RobotStates :
        /\ rs.battery_level = 100
        /\ rs.safety_status = "unsafe" => "manipulation" \in rs.available_capabilities}

InitOrdered ==
    /\ action_plan \in OrderedPlans
    /\ robot_state \in OrderedRobots
    /\ environmental_context \in {e \in SafetyEnvironments : e.obstacles = <<>>}
    /\ checked = <<>>
    /\ plan_before = <<>>
    /\ safe_plan = <<>>
    /\ validation_errors = <<>>
    /\ InitExecIdle
    /\ InitPlannerIdle
    /\ InitRetryIdle
    /\ InitTextIdle
    /\ InitPairIdle
    /\ InitConcurrentIdle
    /\ InitAudioIdle
    /\ InitWorkflowIdle

SpecOrdered == InitOrdered /\ [][NextSafety]_vars

(***************************************************************************)
(* validate_action_plan applied to bounded inputs                          *)
(***************************************************************************)
\* further dependency lists: a forward reference, a reference with a leading
\* zero, a reference in another letter case, and the same dangling reference
\* twice
DependencyPool ==
    {Action("detection", [action |-> StrV(ExecLit.scan_environment)], 1,
            <<PositionalId(1), <<"a","c","t","i","o","n","_","0","1">>>>),
     Action("navigation", [action |-> StrV(ExecLit.stop)], 1,
            <<<<"A","c","t","i","o","n","_","0">>>>),
     Action(ForeignEnumMember, [action |-> StrV(ExecLit.stop)], 1,
            <<PositionalId(5), PositionalId(5)>>)}

\* Action.type is an Enum member, of ActionType or not
ValidatedPlans ==
    {ActionPlan(<<"a","p","_","7">>, <<"v","c","_","1">>, actions, "pending", 7, 0) :
        actions \in SeqsUpTo({a \in ActionPool : a.type # PlainStrType}
                                 \cup DependencyPool, MaxPlanLen)}

InitValidate ==
    /\ action_plan \in ValidatedPlans
    /\ environmental_context = <<>>
    /\ validation_errors = <<>>
    /\ InitExecIdle
    /\ InitSafetyIdle
    /\ InitPlannerIdle
    /\ InitRetryIdle
    /\ InitTextIdle
    /\ InitPairIdle
    /\ InitConcurrentIdle
    /\ InitAudioIdle
    /\ InitWorkflowIdle

\* one call of validate_action_plan
ValidateActionPlan ==
    /\ validation_errors = <<>>
    /\ validation_errors' = <<validate_action_plan(action_plan)>>
    /\ UNCHANGED <<action_plan, exec_vars, safety_vars, environmental_context,
                   planner_vars, retry_vars, text_vars, pair_vars, concurrent_vars,
                audio_vars, workflow_vars>>

NextValidate == ValidateActionPlan

SpecValidate == InitValidate /\ [][NextValidate]_vars

(***************************************************************************)
(* The planner applied to bounded inputs                                   *)
(***************************************************************************)
\* primary_intent strings: the five recognised intents in several letter
\* cases, and unrecognised ones
PrimaryIntents ==
    {<<"n","a","v","i","g","a","t","i","o","n">>,
     <<"N","a","v","i","g","a","t","i","o","n">>,
     <<"m","a","n","i","p","u","l","a","t","i","o","n">>,
     <<"d","e","t","e","c","t","i","o","n">>,
     <<"s","t","a","t","u","s">>,
     <<"S","T","O","P">>,
     <<"d","a","n","c","e">>}

\* the values an upstream interpreter (LLM JSON) may put under each key:
\* strings, numbers (tenths), and values of an unexpected kind
ParameterChoices ==
    [location : {Absent, StrV(<<"k","i","t","c","h","e","n">>)},
     direction : {Absent, StrV(<<"f","o","r","w","a","r","d">>)},
     distance : {Absent, NumV(20), NumV(-300), StrV(<<"2","m">>)},
     object : {Absent, StrV(<<"C","U","P">>), NumV(7)},
     action : {Absent, StrV(<<"p","i","c","k","_","u","p">>), StrV(<<"j","u","g","g","l","e">>)},
     object_type : {Absent, StrV(<<"c","u","p">>)}]

UserIntents ==
    {[primary_intent |-> p, parameters |-> DictOf(c)] :
        p \in PrimaryIntents, c \in ParameterChoices}

\* ObjectInfo(id, type, position)
ObjectPool ==
    {[id |-> <<"c","u","p","_","1">>, type |-> <<"R","e","d"," ","C","u","p">>, position |-> 1],
     [id |-> <<"c","u","p","b","o","a","r","d","_","1">>, type |-> <<"c","u","p","b","o","a","r","d">>, position |-> 2],
     [id |-> <<"c","u","b","e","_","1">>, type |-> <<"r","e","d"," ","c","u","b","e">>, position |-> 3]}

PlannerEnvironments ==
    [objects : SeqsUpTo(ObjectPool, MaxObjects), obstacles : {<<>>}, robot_position : {0}]

PlannerRobots ==
    {[position |-> 0, battery_level |-> 100,
      available_capabilities |-> {"navigation", "manipulation"},
      safety_status |-> "safe"],
     [position |-> 4, battery_level |-> 5,
      available_capabilities |-> {"navigation"},
      safety_status |-> "unsafe"]}

InitPlanner ==
    /\ user_intent \in UserIntents
    /\ environmental_context \in PlannerEnvironments
    /\ planner_robot = <<>>
    /\ strategy = <<>>
    /\ clock = 7
    /\ generated = <<>>
    /\ action_plan = <<>>
    /\ validation_errors = <<>>
    /\ InitExecIdle
    /\ InitSafetyIdle
    /\ InitRetryIdle
    /\ InitTextIdle
    /\ InitPairIdle
    /\ InitConcurrentIdle
    /\ InitAudioIdle
    /\ InitWorkflowIdle

\* one call of generate_action_plan, for some robot state and strategy
GenerateActionPlan ==
    /\ generated = <<>>
    /\ \E rs \in PlannerRobots, strat \in PlanningStrategy :
           /\ planner_robot' = rs
           /\ strategy' = strat
           /\ generated' = <<generate_action_plan(<<"v","c","_","1">>, user_intent,
                                 environmental_context, rs, strat, clock)>>
    /\ UNCHANGED <<action_plan, config, pc, i, results, execution_result, started,
                   in_progress, safety_checks, robot_state, environmental_context,
                   checked, plan_before, safe_plan, user_intent, clock,
                   validation_errors, retry_vars, text_vars, pair_vars, concurrent_vars,
                audio_vars, workflow_vars>>

NextPlanner == GenerateActionPlan

SpecPlanner == InitPlanner /\ [][NextPlanner]_vars

(***************************************************************************)
(* Two calls of the planner on inputs that agree where the plan may depend *)
(***************************************************************************)
\* no parameters, a location, a direction, an object with an action
PairParameters ==
    {DictOf([location |-> Absent]),
     [location |-> StrV(<<"k","i","t","c","h","e","n">>)],
     [direction |-> StrV(<<"f","o","r","w","a","r","d">>)],
     [object |-> StrV(<<"C","U","P">>),
      action |-> StrV(<<"p","i","c","k","_","u","p">>)]}

\* primary intents in two letter cases each
PairPrimaryIntents ==
    {<<"n","a","v","i","g","a","t","i","o","n">>,
     <<"N","a","v","i","g","a","t","i","o","n">>,
     <<"m","a","n","i","p","u","l","a","t","i","o","n">>,
     <<"M","A","N","I","P","U","L","A","T","I","O","N">>,
     <<"s","t","o","p">>, <<"S","T","O","P">>,
     <<"d","a","n","c","e">>, <<"D","a","n","c","e">>}

PairIntents ==
    {[primary_intent |-> p, parameters |-> d] :
        p \in PairPrimaryIntents, d \in PairParameters}

PairEnvironments ==
    [objects : {<<>>,
                <<[id |-> <<"c","u","p","_","1">>,
                   type |-> <<"R","e","d"," ","C","u","p">>, position |-> 1]>>},
     obstacles : {<<>>, <<[position |-> 1]>>},
     robot_position : {0}]

\* two positions, each for a healthy and for a degraded robot
PairRobots ==
    {[position |-> p, battery_level |-> h.battery_level,
      available_capabilities |-> h.available_capabilities,
      safety_status |-> h.safety_status] :
        p \in {0, 4},
        h \in {[battery_level |-> 100,
                available_capabilities |-> {"navigation", "manipulation"},
                safety_status |-> "safe"],
               [battery_level |-> 5, available_capabilities |-> {"navigation"},
                safety_status |-> "unsafe"]}}

\* the arguments of a call that has the same lower-cased primary intent, the
\* same parameters, the same objects and the same robot position
Variants(intent, env, rs) ==
    [user_intent : {q \in PairIntents :
                       /\ Lower(q.primary_intent) = Lower(intent.primary_intent)
                       /\ q.parameters = intent.parameters},
     environmental_context : {e \in PairEnvironments : e.objects = env.objects},
     robot_state : {r \in PairRobots : r.position = rs.position},
     strategy : PlanningStrategy]

InitPlannerPair ==
    /\ user_intent \in PairIntents
    /\ environmental_context \in PairEnvironments
    /\ planner_robot = <<>>
    /\ strategy = <<>>
    /\ clock = 7
    /\ generated = <<>>
    /\ second_call = <<>>
    /\ action_plan = <<>>
    /\ validation_errors = <<>>
    /\ InitExecIdle
    /\ InitSafetyIdle
    /\ InitRetryIdle
    /\ InitTextIdle
    /\ InitConcurrentIdle
    /\ InitAudioIdle
    /\ InitWorkflowIdle

\* two calls of generate_action_plan on the same planner, the second on a
\* variant of the first call's arguments
GenerateTwoActionPlans ==
    /\ generated = <<>>
    /\ \E rs \in PairRobots, strat \in PlanningStrategy :
           \E other \in Variants(user_intent, environmental_context, rs) :
               /\ planner_robot' = rs
               /\ strategy' = strat
               /\ generated' = <<generate_action_plan(<<"v","c","_","1">>, user_intent,
                                     environmental_context, rs, strat, clock)>>
               /\ second_call' =
                      <<[user_intent |-> other.user_intent,
                         environmental_context |-> other.environmental_context,
                         robot_state |-> other.robot_state,
                         strategy |-> other.strategy,
                         generated |->
                             generate_action_plan(<<"v","c","_","2">>,
                                 other.user_intent, other.environmental_context,
                                 other.robot_state, other.strategy, clock)]>>
    /\ UNCHANGED <<action_plan, exec_vars, safety_vars, environmental_context,
                   user_intent, clock, validation_errors, retry_vars, text_vars,
                   concurrent_vars, audio_vars, workflow_vars>>

NextPlannerPair == GenerateTwoActionPlans

SpecPlannerPair == InitPlannerPair /\ [][NextPlannerPair]_vars

(***************************************************************************)
(* AdvancedWhisperPipeline.robust_process_audio as a coroutine             *)
(***************************************************************************)
\* largest max_retries argument passed
MaxRetriesArg == 2

\* AdvancedWhisperPipeline.__init__: self.max_retries = 3
DefaultMaxRetries == 3

\* a float as an exact fraction num / den, den > 0
Rat(num, den) == [num |-> num, den |-> den]

RatLess(a, b) == a.num * b.den < b.num * a.den

RatMul(a, b) == Rat(a.num * b.num, a.den * b.den)

RatAdd(a, b) == Rat(a.num * b.den + b.num * a.den, a.den * b.den)

RatMin(a, b) == IF RatLess(b, a) THEN b ELSE a

RatMax(a, b) == IF RatLess(a, b) THEN b ELSE a

\* models.VoiceCommand; id and timestamp are wall-clock values no decision reads
VoiceCommand(text, confidence, intent, parameters, status) ==
    [text |-> text, confidence |-> confidence, intent |-> intent,
     parameters |-> parameters, status |-> status]

\* what an attempt can return: process_audio_to_command ends with the command
\* validated (PROCESSING, line 80 and the validator) or with FAILED (the
\* validator, or its own error_command of lines 103-112)
AttemptResults ==
    {VoiceCommand(<<"s","t","o","p">>, Rat(95, 100), <<>>, <<>>, "processing"),
     VoiceCommand(<<"u","m">>, Rat(20, 100), <<>>, <<>>, "failed"),
     VoiceCommand(<<>>, Rat(0, 1), <<>>, <<>>, "failed")}

\* str(e) of the exceptions an attempt can end with
ExceptionMessages ==
    {<<"t","i","m","e","o","u","t">>, <<"n","o"," ","a","u","d","i","o">>}

\* an entry of the history attempt_log
Event(ev, n, msg) == [ev |-> ev, n |-> n, msg |-> msg]

InitRetry ==
    /\ max_retries \in {<<>>} \cup {<<n>> : n \in 0..MaxRetriesArg}
    /\ retry_pc = "idle"
    /\ retries = 0
    /\ attempt = 0
    /\ last_error = <<>>
    /\ attempt_log = <<>>
    /\ robust_result = <<>>
    /\ action_plan = <<>>
    /\ environmental_context = <<>>
    /\ validation_errors = <<>>
    /\ InitExecIdle
    /\ InitSafetyIdle
    /\ InitPlannerIdle
    /\ InitTextIdle
    /\ InitPairIdle
    /\ InitConcurrentIdle
    /\ InitAudioIdle
    /\ InitWorkflowIdle

\* what no step of robust_process_audio touches
RetryFrame ==
    UNCHANGED <<action_plan, exec_vars, safety_vars, environmental_context,
                planner_vars, validation_errors, text_vars, max_retries, pair_vars, concurrent_vars,
                audio_vars, workflow_vars>>

\* lines 158-159: `max_retries or self.max_retries` takes the default for
\* None and for 0 alike
RobustProcessAudioStart ==
    /\ RetryFrame
    /\ retry_pc = "idle"
    /\ retries' = IF max_retries = <<>> \/ max_retries[1] = 0
                  THEN DefaultMaxRetries ELSE max_retries[1]
    /\ last_error' = <<>>
    /\ attempt' = 0
    /\ retry_pc' = "loop"
    /\ UNCHANGED <<attempt_log, robust_result>>

\* line 166: the attempt is invoked and awaited
InvokeAttempt ==
    /\ RetryFrame
    /\ retry_pc = "loop"
    /\ attempt <= retries
    /\ attempt_log' = Append(attempt_log, Event("attempt", attempt, <<>>))
    /\ retry_pc' = "awaiting"
    /\ UNCHANGED <<retries, attempt, last_error, robust_result>>

\* lines 166-170: the attempt returns a VoiceCommand; it is returned unless it
\* is FAILED and attempts remain, in which case the loop goes straight on
AttemptReturns ==
    /\ RetryFrame
    /\ retry_pc = "awaiting"
    /\ \E result \in AttemptResults :
           /\ attempt_log' = Append(attempt_log, Event(result.status, attempt, <<>>))
           /\ IF result.status # "failed" \/ attempt = retries
              THEN /\ robust_result' = <<result>>
                   /\ retry_pc' = "returned"
                   /\ UNCHANGED attempt
              ELSE /\ attempt' = attempt + 1
                   /\ retry_pc' = "loop"
                   /\ UNCHANGED robust_result
    /\ UNCHANGED <<retries, last_error>>

\* the attempt raises and nothing catches it
AttemptRaises_propagates ==
    /\ RetryFrame
    /\ retry_pc = "awaiting"
    /\ \E msg \in ExceptionMessages :
           attempt_log' = Append(attempt_log, Event("raised", attempt, msg))
    /\ retry_pc' = "raised"
    /\ UNCHANGED <<retries, attempt, last_error, robust_result>>

\* lines 172-178 and 180-191: the attempt raises; last_error is recorded, then
\* either the backoff sleep begins or, after the final attempt, the loop is
\* exhausted and the failed command is built and returned
AttemptRaises ==
    /\ RetryFrame
    /\ retry_pc = "awaiting"
    /\ \E msg \in ExceptionMessages :
           /\ last_error' = <<msg>>
           /\ IF attempt < retries
              THEN /\ attempt_log' = attempt_log
                                     \o <<Event("raised", attempt, msg),
                                          Event("sleep", 2^attempt, <<>>)>>
                   /\ retry_pc' = "sleeping"
                   /\ UNCHANGED robust_result
              ELSE /\ attempt_log' = Append(attempt_log, Event("raised", attempt, msg))
                   /\ robust_result' =
                          <<VoiceCommand(<<>>, Rat(0, 1), <<>>, [error |-> StrV(msg)], "failed")>>
                   /\ retry_pc' = "returned"
    /\ UNCHANGED <<retries, attempt>>

\* line 178 is over: next iteration of the loop
BackoffElapsed ==
    /\ RetryFrame
    /\ retry_pc = "sleeping"
    /\ attempt' = attempt + 1
    /\ retry_pc' = "loop"
    /\ UNCHANGED <<retries, last_error, attempt_log, robust_result>>

NextRetry ==
    \/ RobustProcessAudioStart
    \/ InvokeAttempt
    \/ AttemptReturns
    \/ AttemptRaises
    \/ BackoffElapsed

SpecRetry == InitRetry /\ [][NextRetry]_vars

(***************************************************************************)
(* VoiceCommandWorkflow.process_text_command and the validation it calls   *)
(***************************************************************************)
\* largest number of words of a command text
MaxWords == 3

RECURSIVE JoinWords(_)
\* " ".join(words)
JoinWords(words) ==
    IF words = <<>> THEN <<>>
    ELSE IF Len(words) = 1 THEN words[1]
    ELSE words[1] \o <<" ">> \o JoinWords(Tail(words))

\* str.strip() for texts whose only whitespace is the space
Strip(s) ==
    LET inked == {k \in 1..Len(s) : s[k] # " "}
    IN  IF inked = {} THEN <<>>
        ELSE SubSeq(s, CHOOSE k \in inked : \A m \in inked : k <= m,
                       CHOOSE k \in inked : \A m \in inked : m <= k)

\* str.split(): the maximal runs of non-space characters, in order
Split(s) ==
    LET starts == {k \in 1..Len(s) : s[k] # " " /\ (k = 1 \/ s[k - 1] = " ")}
        ends == {k \in 1..Len(s) : s[k] # " " /\ (k = Len(s) \/ s[k + 1] = " ")}
        nth(S, n) == CHOOSE k \in S : Cardinality({m \in S : m < k}) = n - 1
    IN  [n \in 1..Cardinality(starts) |-> SubSeq(s, nth(starts, n), nth(ends, n))]

\* \w for the characters texts are made of
IsWordChar(c) ==
    \/ \E k \in 1..26 : c = LowerCase[k] \/ c = UpperCase[k]
    \/ \E k \in 1..10 : c = Digit[k]
    \/ c = "_"

\* len(re.findall(r'[^\w\s]', text))
SpecialChars(s) == Cardinality({k \in 1..Len(s) : ~IsWordChar(s[k]) /\ s[k] # " "})

\* VoiceCommandValidator.stop_words
StopWords ==
    {<<"u","m">>, <<"u","h">>, <<"l","i","k","e">>, <<"y","o","u">>,
     <<"k","n","o","w">>, <<"w","e","l","l">>, <<"s","o">>,
     <<"a","c","t","u","a","l","l","y">>,
     <<"b","a","s","i","c","a","l","l","y">>,
     <<"l","i","t","e","r","a","l","l","y">>, <<"v","e","r","y">>,
     <<"r","e","a","l","l","y">>, <<"q","u","i","t","e">>,
     <<"p","r","e","t","t","y">>}

\* the alternatives of VoiceCommandValidator.command_patterns
PatternWords ==
    [movers |->
        {<<"m","o","v","e">>, <<"g","o">>, <<"w","a","l","k">>,
         <<"d","r","i","v","e">>, <<"n","a","v","i","g","a","t","e">>},
     directions |->
        {<<"f","o","r","w","a","r","d">>, <<"b","a","c","k","w","a","r","d">>,
         <<"l","e","f","t">>, <<"r","i","g","h","t">>, <<"u","p">>,
         <<"d","o","w","n">>},
     to_heads |->
        {<<"g","o">>, <<"m","o","v","e">>,
         <<"n","a","v","i","g","a","t","e">>},
     goto |-> <<"g","o","t","o">>,
     to |-> <<"t","o">>,
     units |->
        {<<"m","e","t","e","r">>, <<"f","o","o","t">>, <<"s","t","e","p">>},
     grasps |->
        {<<"p","i","c","k">>, <<"g","r","a","s","p">>, <<"t","a","k","e">>,
         <<"g","r","a","b">>, <<"l","i","f","t">>, <<"h","o","l","d">>},
     grasp_objects |->
        {<<"u","p">>, <<"o","b","j","e","c","t">>, <<"i","t","e","m">>},
     places |->
        {<<"p","l","a","c","e">>, <<"p","u","t">>, <<"s","e","t">>,
         <<"d","r","o","p">>, <<"r","e","l","e","a","s","e">>},
     shifts |->
        {<<"m","o","v","e">>, <<"l","i","f","t">>,
         <<"r","o","t","a","t","e">>, <<"t","u","r","n">>},
     shift_objects |->
        {<<"o","b","j","e","c","t">>, <<"i","t","e","m">>,
         <<"t","h","i","n","g">>},
     finds |->
        {<<"f","i","n","d">>, <<"l","o","c","a","t","e">>,
         <<"d","e","t","e","c","t">>, <<"s","e","e">>, <<"s","p","o","t">>},
     looks |->
        {<<"l","o","o","k">>, <<"s","e","a","r","c","h">>,
         <<"s","c","a","n">>},
     look_targets |->
        {<<"f","o","r">>, <<"a","t">>},
     halts |->
        {<<"s","t","o","p">>, <<"h","a","l","t">>, <<"p","a","u","s","e">>,
         <<"w","a","i","t">>, <<"s","t","a","n","d">>},
     questions |->
        {<<"h","o","w">>, <<"w","h","a","t">>, <<"w","h","e","r","e">>,
         <<"w","h","e","n">>},
     auxiliaries |->
        {<<"a","r","e">>, <<"i","s">>, <<"d","o">>, <<"c","a","n">>}]

\* re.search(r'\b(a)\b.*\b(b)\b', ...): a word of A followed, later, by a word
\* of B.  Texts are words separated by spaces, each word made either of \w
\* characters only or of special characters only, so \b(w)\b matches exactly
\* at a word equal to w.
Followed(A, B, words) ==
    \E k, m \in 1..Len(words) : k < m /\ words[k] \in A /\ words[m] \in B

Present(A, words) == \E k \in 1..Len(words) : words[k] \in A

\* F applied to the value of e: e is evaluated once, however often F reads it
Once(F(_), e) == CHOOSE r \in {F(x) : x \in {e}} : TRUE

\* which of the ten command_patterns re.search finds, given the words of
\* text.lower()
PatternMatches(words) ==
    LET w == PatternWords
    IN  <<Followed(w.movers, w.directions, words),
          \/ Present({w.goto}, words)
          \/ \E k \in 1..(Len(words) - 1) :
                 words[k] \in w.to_heads /\ words[k + 1] = w.to,
          Followed(w.directions, w.units, words),
          Followed(w.grasps, w.grasp_objects, words),
          Present(w.places, words),
          Followed(w.shifts, w.shift_objects, words),
          Present(w.finds, words),
          Followed(w.looks, w.look_targets, words),
          Present(w.halts, words),
          Followed(w.questions, w.auxiliaries, words)>>

\* sum(1 for word in words if word in self.stop_words)
StopWordCount(words) ==
    Cardinality({k \in 1..Len(words) : words[k] \in StopWords})

\* what both validations read off a text: len(text.strip()), len(text), the
\* count of special characters, and of words = text.lower().split() the
\* length, the stop words and the patterns matched
TextMeasures(s) ==
    Once(LAMBDA words :
             [stripped |-> Len(Strip(s)),
              length |-> Len(s),
              special_chars |-> SpecialChars(s),
              words |-> Len(words),
              stop_word_count |-> StopWordCount(words),
              matches |-> PatternMatches(words)],
         Split(Lower(s)))

\* VoiceCommandValidator.validate_command_text: [is_valid, issues]
validate_command_text(s) ==
    LET body(t) ==
            LET issues ==
                    (IF t.stripped < 3
                     THEN <<"Command text is too short">> ELSE <<>>)
                    \o (IF t.words > 0
                           /\ RatLess(Rat(3, 10), Rat(t.stop_word_count, t.words))
                        THEN <<"Command contains excessive filler words">>
                        ELSE <<>>)
                    \o (IF ~\E k \in 1..Len(t.matches) : t.matches[k]
                        THEN <<"Command does not match expected robot command patterns">>
                        ELSE <<>>)
                    \o (IF RatLess(Rat(1, 10), Rat(t.special_chars, t.length))
                        THEN <<"Command contains excessive special characters">>
                        ELSE <<>>)
            IN  [is_valid |-> issues = <<>>, issues |-> issues]
    IN  IF s = <<>> \/ Strip(s) = <<>>
        THEN [is_valid |-> FALSE, issues |-> <<"Command text is empty">>]
        ELSE Once(body, TextMeasures(s))

\* VoiceCommandValidator.calculate_text_confidence (original_confidence given)
calculate_text_confidence(s, original_confidence) ==
    LET body(t) ==
            LET pattern_matches ==
                    Cardinality({k \in 1..Len(t.matches) : t.matches[k]})
                c1 == IF t.words > 0
                      THEN RatMul(original_confidence,
                                  Rat(10 * t.words - 3 * t.stop_word_count,
                                      10 * t.words))
                      ELSE original_confidence
                c2 == IF pattern_matches > 0
                      THEN RatMin(RatAdd(c1, Rat(IF pattern_matches < 3
                                                 THEN pattern_matches ELSE 3, 10)),
                                  Rat(1, 1))
                      ELSE c1
                c3 == IF t.words > 15 THEN RatMul(c2, Rat(8, 10)) ELSE c2
                c4 == IF RatLess(Rat(1, 10), Rat(t.special_chars, t.length))
                      THEN RatMul(c3, Rat(7, 10)) ELSE c3
            IN  RatMax(Rat(0, 1), RatMin(Rat(1, 1), c4))
    IN  IF s = <<>> \/ Strip(s) = <<>> THEN Rat(0, 1)
        ELSE Once(body, TextMeasures(s))

\* VoiceCommandValidator.validate_voice_command: [is_valid, issues,
\* adjusted_confidence]; the id is never missing here
validator_validate_voice_command(voice_command) ==
    LET body(r) ==
            LET issues ==
                    (IF ~r.checked_text.is_valid
                     THEN r.checked_text.issues ELSE <<>>)
                    \o (IF RatLess(voice_command.confidence, Rat(0, 1))
                           \/ RatLess(Rat(1, 1), voice_command.confidence)
                        THEN <<"Confidence score is out of valid range">>
                        ELSE <<>>)
                    \o (IF RatLess(r.adjusted_confidence, Rat(3, 10))
                        THEN <<"Adjusted confidence score is below minimum threshold">>
                        ELSE <<>>)
            IN  [is_valid |-> issues = <<>>
                              /\ ~RatLess(r.adjusted_confidence, Rat(3, 10)),
                 issues |-> issues,
                 adjusted_confidence |-> r.adjusted_confidence]
    IN  Once(body,
             [checked_text |-> validate_command_text(voice_command.text),
              adjusted_confidence |->
                  calculate_text_confidence(voice_command.text,
                                            voice_command.confidence)])

\* VoiceCommandProcessor.process_voice_command of chapter 1: the confidence is
\* replaced by the adjusted one, the status becomes PROCESSING or FAILED
process_voice_command(voice_command) ==
    Once(LAMBDA v :
             [voice_command EXCEPT
                 !.confidence = v.adjusted_confidence,
                 !.status = IF v.is_valid THEN "processing" ELSE "failed"],
         validator_validate_voice_command(voice_command))

\* shared VoiceCommandProcessor.validate_voice_command(text, confidence)
processor_validate_voice_command(s, c) ==
    IF Strip(s) = <<>> THEN FALSE
    ELSE IF RatLess(c, Rat(0, 1)) \/ RatLess(Rat(1, 1), c) THEN FALSE
    ELSE IF RatLess(c, Rat(5, 10)) THEN FALSE
    ELSE TRUE

\* shared VoiceCommandProcessor.create_voice_command_from_text:
\* [raised, voice_command]; ValueError for a text or confidence it rejects
create_voice_command_from_text(s, c) ==
    IF ~processor_validate_voice_command(s, c)
    THEN [raised |-> TRUE, voice_command |-> <<>>]
    ELSE [raised |-> FALSE,
          voice_command |-> <<VoiceCommand(s, c, <<>>, <<>>, "pending")>>]

\* what VoiceIntentInterpreter.interpret_intent can do: raise ValueError for
\* want of an OpenAI client, or return the UserIntent parsed from the reply
InterpreterOutcomes ==
    {[raised |-> TRUE, primary_intent |-> <<>>, parameters |-> <<>>]}
    \cup {[raised |-> FALSE, primary_intent |-> q, parameters |-> ps] :
            q \in {<<"n","a","v","i","g","a","t","i","o","n">>, <<"o","t","h","e","r">>},
            ps \in {<<>>, [direction |-> StrV(<<"f","o","r","w","a","r","d">>)]}}

\* the second component of the returned tuple: a literal, and what is
\* interpolated or returned in its place
Message(literal, arg) == [literal |-> literal, arg |-> arg]

\* VoiceCommandWorkflow.process_text_command: [voice_command, message].
\* `bound` tells whether self.whisper_integration.whisper resolves, to the
\* only class defining create_voice_command_from_text; WhisperIntegration
\* assigns no such attribute, and the AttributeError is caught at line 155.
process_text_command(s, c, bound, interpreted) ==
    LET error_command == VoiceCommand(s, Rat(0, 1), <<>>, <<>>, "failed")
        interpret(voice_command) ==
            IF voice_command.status = "failed"
            THEN [voice_command |-> voice_command,
                  message |-> Message("Validation failed", "")]
            ELSE IF interpreted.raised
            THEN [voice_command |-> voice_command,
                  message |-> Message("Intent interpretation error: ",
                                      "OpenAI API key is required")]
            ELSE [voice_command |->
                      [voice_command EXCEPT
                          !.intent = interpreted.primary_intent,
                          !.parameters = interpreted.parameters],
                  message |-> Message("", interpreted.primary_intent)]
        validate_created(created) ==
            IF created.raised
            THEN [voice_command |-> error_command,
                  message |-> Message("Processing error: ", "Invalid voice command")]
            ELSE Once(interpret, process_voice_command(created.voice_command[1]))
    IN  IF ~bound
        THEN [voice_command |-> error_command,
              message |-> Message("Processing error: ", "AttributeError")]
        ELSE Once(validate_created, create_voice_command_from_text(s, c))

\* the words command texts are made of
TextWords ==
    {<<"M","o","v","e">>, <<"f","o","r","w","a","r","d">>,
     <<"P","i","c","k">>, <<"u","p">>, <<"u","m">>, <<"h","e","l","l","o">>,
     <<"?","!">>}

\* 0.85 (the default), 0.4 and 1.5
TextConfidences == {Rat(85, 100), Rat(40, 100), Rat(150, 100)}

InitText ==
    /\ command_text \in {JoinWords(words) : words \in SeqsUpTo(TextWords, MaxWords)}
    /\ text_confidence \in TextConfidences
    /\ whisper_bound \in BOOLEAN
    /\ text_result = <<>>
    /\ action_plan = <<>>
    /\ environmental_context = <<>>
    /\ validation_errors = <<>>
    /\ InitExecIdle
    /\ InitSafetyIdle
    /\ InitPlannerIdle
    /\ InitRetryIdle
    /\ InitPairIdle
    /\ InitConcurrentIdle
    /\ InitAudioIdle
    /\ InitWorkflowIdle

\* one call of process_text_command
ProcessTextCommand ==
    /\ text_result = <<>>
    /\ \E interpreted \in InterpreterOutcomes :
           text_result' = <<process_text_command(command_text, text_confidence,
                                                 whisper_bound, interpreted)>>
    /\ UNCHANGED <<action_plan, exec_vars, safety_vars, environmental_context,
                   planner_vars, validation_errors, retry_vars, pair_vars,
                   concurrent_vars, audio_vars, workflow_vars, command_text,
                   text_confidence, whisper_bound>>

NextText == ProcessTextCommand

SpecText == InitText /\ [][NextText]_vars

(***************************************************************************)
(* WhisperProcessingOrchestrator.process_audio_to_command as a coroutine   *)
(***************************************************************************)
\* what transcribe_audio_file can return: a text of up to two words (none for
\* silence) with a high or a low confidence
Transcriptions ==
    [text : {JoinWords(ws) : ws \in SeqsUpTo(TextWords, 2)},
     confidence : {Rat(85, 100), Rat(40, 100)}]

\* lines 103-112: the command built by the `except Exception` handler
error_command == VoiceCommand(<<>>, Rat(0, 1), <<>>, <<>>, "failed")

\* audio_source by what the string denotes: one of the two capture keywords,
\* the path of an existing file, or anything else
InitAudio ==
    /\ audio_source \in {"microphone", "until_silence", "existing_file", "other"}
    /\ validate \in BOOLEAN
    /\ audio_pc = "idle"
    /\ transcription = <<>>
    /\ audio_command = <<>>
    /\ audio_result = <<>>
    /\ action_plan = <<>>
    /\ environmental_context = <<>>
    /\ validation_errors = <<>>
    /\ InitExecIdle
    /\ InitSafetyIdle
    /\ InitPlannerIdle
    /\ InitRetryIdle
    /\ InitTextIdle
    /\ InitPairIdle
    /\ InitConcurrentIdle
    /\ InitWorkflowIdle

\* what no step of process_audio_to_command touches
AudioFrame ==
    UNCHANGED <<action_plan, exec_vars, safety_vars, environmental_context,
                planner_vars, validation_errors, retry_vars, text_vars, pair_vars,
                concurrent_vars, workflow_vars, audio_source, validate>>

\* lines 53-63: capture_voice_input returns a path or raises; an existing
\* file passes validate_audio_file or ValueError is raised; any other source
\* raises ValueError.  Every exception lands in the handler of line 101, which
\* returns error_command.
CaptureAudio ==
    /\ AudioFrame
    /\ audio_pc = "idle"
    /\ \E ok \in BOOLEAN :
           IF ok /\ audio_source # "other"
           THEN /\ audio_pc' = "captured"
                /\ UNCHANGED audio_result
           ELSE /\ audio_pc' = "returned"
                /\ audio_result' = <<error_command>>
    /\ UNCHANGED <<transcription, audio_command>>

\* Step 2 with the exception of transcribe_audio_file leaving the coroutine
TranscribeAudio_propagates ==
    /\ AudioFrame
    /\ audio_pc = "captured"
    /\ \/ /\ audio_pc' = "raised"
          /\ UNCHANGED <<transcription, audio_command, audio_result>>
       \/ \E t \in Transcriptions :
              /\ transcription' = <<t>>
              /\ audio_command' =
                     <<VoiceCommand(t.text, t.confidence, <<>>, <<>>, "processing")>>
              /\ audio_pc' = "transcribed"
              /\ UNCHANGED audio_result

\* lines 67-81: transcribe_audio_file raises (handler of line 101), or
\* returns text and confidence, from which the PROCESSING command is built
TranscribeAudio ==
    /\ AudioFrame
    /\ audio_pc = "captured"
    /\ \/ /\ audio_pc' = "returned"
          /\ audio_result' = <<error_command>>
          /\ UNCHANGED <<transcription, audio_command>>
       \/ \E t \in Transcriptions :
              /\ transcription' = <<t>>
              /\ audio_command' =
                     <<VoiceCommand(t.text, t.confidence, <<>>, <<>>, "processing")>>
              /\ audio_pc' = "transcribed"
              /\ UNCHANGED audio_result

\* lines 84-99: process_voice_command if validate (it catches what it raises),
\* the clean-up of a temporary file (its failure is caught at line 95), return
ValidateAndReturn ==
    /\ AudioFrame
    /\ audio_pc = "transcribed"
    /\ audio_command' = IF validate
                        THEN <<process_voice_command(audio_command[1])>>
                        ELSE audio_command
    /\ audio_result' = audio_command'
    /\ audio_pc' = "returned"
    /\ UNCHANGED transcription

NextAudio ==
    \/ CaptureAudio
    \/ TranscribeAudio
    \/ ValidateAndReturn

SpecAudio == InitAudio /\ [][NextAudio]_vars

(***************************************************************************)
(* The executor applied to the plans the planner generates                 *)
(***************************************************************************)
\* every branch of _generate_actions_from_intent, the fallback included, and
\* a manipulation name handed through from the interpreter
PipelineIntents ==
    PairIntents
    \cup {[primary_intent |-> p, parameters |-> d] :
             p \in {<<"d","e","t","e","c","t","i","o","n">>, <<"s","t","a","t","u","s">>},
             d \in {DictOf([location |-> Absent]),
                    [object_type |-> StrV(<<"c","u","p">>)]}}
    \cup {[primary_intent |-> <<"m","a","n","i","p","u","l","a","t","i","o","n">>,
           parameters |-> [object |-> StrV(<<"C","U","P">>),
                           action |-> StrV(<<"j","u","g","g","l","e">>)]]}

\* the plans generate_action_plan returns, unfiltered
PlannedPlans ==
    LET outcomes == {generate_action_plan(<<"v","c","_","1">>, intent, env, rs,
                                          "sequential", 7) :
                        intent \in PipelineIntents, env \in PairEnvironments,
                        rs \in PairRobots}
    IN  {g.plan[1] : g \in {o \in outcomes : ~o.raised}}

InitPipeline ==
    /\ action_plan \in PlannedPlans
    /\ config \in [enable_safety_protocols : BOOLEAN]
    /\ environmental_context = <<>>
    /\ validation_errors = <<>>
    /\ pc = "idle"
    /\ i = 0
    /\ results = <<>>
    /\ execution_result = <<>>
    /\ started = <<>>
    /\ in_progress = {}
    /\ safety_checks = 0
    /\ InitSafetyIdle
    /\ InitPlannerIdle
    /\ InitRetryIdle
    /\ InitTextIdle
    /\ InitPairIdle
    /\ InitConcurrentIdle
    /\ InitAudioIdle
    /\ InitWorkflowIdle

SpecPipeline == InitPipeline /\ [][NextExec]_vars

(***************************************************************************)
(* SequentialWorkflow.execute as a coroutine                               *)
(***************************************************************************)
\* largest number of steps added to a workflow
MaxSteps == 3

\* WorkflowStep(name, description, required): add_step takes any step, so a
\* name may occur more than once
InitWorkflow ==
    /\ steps \in SeqsUpTo([name : {"transcription", "validation"},
                           required : BOOLEAN], MaxSteps)
    /\ workflow_pc = "loop"
    /\ step_index = 0
    /\ step_results = <<>>
    /\ step_log = <<>>
    /\ workflow_result = <<>>
    /\ action_plan = <<>>
    /\ environmental_context = <<>>
    /\ validation_errors = <<>>
    /\ InitExecIdle
    /\ InitSafetyIdle
    /\ InitPlannerIdle
    /\ InitRetryIdle
    /\ InitTextIdle
    /\ InitPairIdle
    /\ InitConcurrentIdle
    /\ InitAudioIdle

\* what no step of SequentialWorkflow.execute touches
WorkflowFrame ==
    UNCHANGED <<action_plan, exec_vars, safety_vars, environmental_context,
                planner_vars, validation_errors, retry_vars, text_vars, pair_vars,
                concurrent_vars, audio_vars, steps>>

\* step_results[step.name] = {...}
SetItem(d, key, value) ==
    [k \in DOMAIN d \cup {key} |-> IF k = key THEN value ELSE d[k]]

\* lines 361-373, one iteration: WorkflowStep.execute returns (True, result)
\* or, having caught the exception of _execute_step, (False, str(e)); the
\* outcome is stored under the step's name; a failed required step ends the
\* call with success False
ExecuteStep ==
    /\ WorkflowFrame
    /\ workflow_pc = "loop"
    /\ step_index < Len(steps)
    /\ \E success \in BOOLEAN :
           /\ step_log' = Append(step_log, [index |-> step_index, success |-> success])
           /\ step_results' = SetItem(step_results, steps[step_index + 1].name,
                                      [success |-> success])
           /\ IF ~success /\ steps[step_index + 1].required
              THEN /\ workflow_result' =
                          <<[success |-> FALSE, step_results |-> step_results']>>
                   /\ workflow_pc' = "returned"
                   /\ UNCHANGED step_index
              ELSE /\ step_index' = step_index + 1
                   /\ UNCHANGED <<workflow_pc, workflow_result>>

\* lines 374-375: every step was executed
WorkflowCompleted ==
    /\ WorkflowFrame
    /\ workflow_pc = "loop"
    /\ step_index = Len(steps)
    /\ workflow_result' = <<[success |-> TRUE, step_results |-> step_results]>>
    /\ workflow_pc' = "returned"
    /\ UNCHANGED <<step_index, step_results, step_log>>

NextWorkflow ==
    \/ ExecuteStep
    \/ WorkflowCompleted

SpecWorkflow == InitWorkflow /\ [][NextWorkflow]_vars

(***************************************************************************)
(* Claims about the executor                                               *)
(***************************************************************************)
Returned == pc = "returned"

\* C1 (as stated): in every returned ExecutionResult, also for a plan with zero
\* actions, overall_status is "success" iff every result is "success",
\* "failure" iff no result is "success", and "partial" otherwise.
C1_AsStated ==
    Returned =>
        LET r == execution_result[1]
            every == \A k \in 1..Len(r.results) : r.results[k].status = "success"
            none == \A k \in 1..Len(r.results) : r.results[k].status # "success"
        IN  /\ (r.overall_status = "success") <=> every
            /\ (r.overall_status = "failure") <=> none
            /\ (r.overall_status = "partial") <=> (~every /\ ~none)

\* C1 (amended): overall_status is "success" iff every result is "success"
\* (so a plan with zero actions yields "success"), "failure" iff there is at
\* least one result and none is "success", and "partial" otherwise.
C1_OverallStatus ==
    Returned =>
        LET r == execution_result[1]
            every == \A k \in 1..Len(r.results) : r.results[k].status = "success"
            none == \A k \in 1..Len(r.results) : r.results[k].status # "success"
        IN  /\ (r.overall_status = "success") <=> every
            /\ (r.overall_status = "failure") <=> (none /\ Len(r.results) > 0)
            /\ (r.overall_status = "partial") <=> (~every /\ ~none)

\* C1 witness: a plan with zero actions has been executed and reported "success"
C1_Witness ==
    /\ Returned
    /\ action_plan.actions = <<>>
    /\ execution_result[1].results = <<>>
    /\ execution_result[1].overall_status = "success"

\* C2: execute_action_plan never raises and never stops early: whatever the
\* actions' types, sub-action names and failures, it returns an
\* ExecutionResult with exactly one result per action, result k being the
\* outcome of the plan's k-th action.
C2_OneResultPerAction ==
    /\ pc # "raised"
    /\ Len(results) <= Len(action_plan.actions)
    /\ \A k \in 1..Len(results) :
           results[k] = execute_single_action(action_plan.actions[k], k - 1).result
    /\ Returned =>
           /\ Len(execution_result[1].results) = Len(action_plan.actions)
           /\ execution_result[1].results = results
           /\ started = [k \in 1..Len(action_plan.actions) |-> k - 1]

\* C2 witness: a three-action plan whose first action failed on an exception,
\* whose second failed on an unknown sub-action and whose third succeeded
C2_Witness ==
    /\ Returned
    /\ Len(action_plan.actions) = 3
    /\ action_plan.actions[1].type = PlainStrType
    /\ execution_result[1].results[1].details.text = "Error executing action: "
    /\ execution_result[1].results[2].details.text = "Unknown navigation action: "
    /\ execution_result[1].results[3].status = "success"

\* C3: actions are started in list order, action k+1 only after action k has
\* finished and its result is recorded; never two actions in progress; once
\* started the call runs through all actions (no step aborts it, and some step
\* is possible until it has returned).
C3_StrictlySequential ==
    /\ Cardinality(in_progress) <= 1
    /\ started = [k \in 1..Len(started) |-> k - 1]
    /\ in_progress # {} => in_progress = {Len(results)}
    /\ Len(started) \in {Len(results), Len(results) + 1}
    /\ Len(started) = Len(results) + 1 => pc = "sleeping"
    /\ (pc \notin {"idle", "returned"}) => ENABLED NextExec
    /\ Returned => Len(started) = Len(action_plan.actions)

\* C3 witness: the second action is asleep after the first one failed
C3_Witness ==
    /\ pc = "sleeping"
    /\ in_progress = {1}
    /\ Len(results) = 1
    /\ results[1].status = "failed"

(***************************************************************************)
(* Claims about the enforcer                                               *)
(***************************************************************************)
\* C4: check_action_safety returns false whenever battery_level < 0.1, for
\* every action type, safety status, capability set and environment.
C4_LowBatteryUnsafe ==
    (checked # <<>> /\ robot_state.battery_level < 10) => ~checked[1].safe

\* C4 witness: a DETECTION action was refused on a 9% battery although the
\* robot is "safe", fully capable and the way is clear
C4_Witness ==
    /\ checked # <<>>
    /\ checked[1].action.type = "detection"
    /\ robot_state.battery_level = 9
    /\ robot_state.safety_status = "safe"
    /\ "manipulation" \in robot_state.available_capabilities
    /\ environmental_context.obstacles = <<>>
    /\ ~checked[1].safe

\* C5: check_action_safety returns true iff battery_level >= 0.1, the safety
\* status is not "unsafe", and a MANIPULATION action finds "manipulation"
\* among the capabilities; obstacles never make a NAVIGATION action unsafe and
\* DETECTION is judged on battery and status alone.
C5_SafetyVerdict ==
    checked # <<>> =>
        (checked[1].safe <=>
            /\ robot_state.battery_level >= 10
            /\ robot_state.safety_status # "unsafe"
            /\ (checked[1].action.type = "manipulation"
                    => "manipulation" \in robot_state.available_capabilities))

\* C5 witness: a NAVIGATION action was found safe with an obstacle present
C5_Witness ==
    /\ checked # <<>>
    /\ checked[1].action.type = "navigation"
    /\ Len(environmental_context.obstacles) > 0
    /\ checked[1].safe

\* the positions of the input plan's actions that pass check_action_safety
SafePositions ==
    {j \in 1..Len(action_plan.actions) :
        check_action_safety(action_plan.actions[j], robot_state, environmental_context)}

\* C6: the returned plan's action list is exactly the subsequence of the
\* input's actions for which check_action_safety is true, in their original
\* relative order.
C6_SafeSubsequence ==
    safe_plan # <<>> =>
        /\ Len(safe_plan[1].actions) = Cardinality(SafePositions)
        /\ \A k \in 1..Len(safe_plan[1].actions) :
               \E j \in SafePositions :
                   /\ Cardinality({m \in SafePositions : m < j}) = k - 1
                   /\ safe_plan[1].actions[k] = action_plan.actions[j]

\* C6 witness: [NAVIGATION, MANIPULATION] filtered to [NAVIGATION] for a
\* healthy robot without the manipulation capability
C6_Witness ==
    /\ safe_plan # <<>>
    /\ robot_state.battery_level = 100
    /\ robot_state.safety_status = "safe"
    /\ "manipulation" \notin robot_state.available_capabilities
    /\ Len(action_plan.actions) = 2
    /\ action_plan.actions[1].type = "navigation"
    /\ action_plan.actions[2].type = "manipulation"
    /\ safe_plan[1].actions = <<action_plan.actions[1]>>

\* C7: enforce_safety_constraints leaves the input plan's id, actions, status,
\* created_at and estimated_duration as they were, and returns a distinct plan
\* with id "safe_" + the original id and the original's voice-command linkage
\* and status.
C7_InputUntouched ==
    safe_plan # <<>> =>
        /\ action_plan = plan_before[1]
        /\ safe_plan[1].id = <<"s","a","f","e","_">> \o plan_before[1].id
        /\ safe_plan[1].id # action_plan.id
        /\ safe_plan[1].voice_command_id = plan_before[1].voice_command_id
        /\ safe_plan[1].status = plan_before[1].status

\* C7 witness: a "processing" plan lost an action to the filter and still has
\* all its actions itself
C7_Witness ==
    /\ safe_plan # <<>>
    /\ action_plan.status = "processing"
    /\ Len(action_plan.actions) = 2
    /\ Len(safe_plan[1].actions) = 1

(***************************************************************************)
(* Claims about the planner                                                *)
(***************************************************************************)
Called == generated # <<>>

LoweredIntent == Lower(user_intent.primary_intent)

RecognisedIntents ==
    {<<"n","a","v","i","g","a","t","i","o","n">>,
     <<"m","a","n","i","p","u","l","a","t","i","o","n">>,
     <<"d","e","t","e","c","t","i","o","n">>,
     <<"s","t","a","t","u","s">>,
     <<"s","t","o","p">>}

\* C8: for an intent whose lower-cased primary_intent is none of navigation,
\* manipulation, detection, status, stop, generate_action_plan returns, without
\* raising, a plan with exactly one action, a "wait" action, whatever the
\* parameters, environment and robot state; and no plan it returns is empty.
C8_UnrecognisedIntentWaits ==
    Called =>
        /\ LoweredIntent \notin RecognisedIntents =>
               /\ ~generated[1].raised
               /\ Len(generated[1].plan[1].actions) = 1
               /\ generated[1].plan[1].actions[1].parameters["action"]
                      = StrV(<<"w","a","i","t">>)
        /\ ~generated[1].raised => Len(generated[1].plan[1].actions) >= 1

\* C8 witness: an unrecognised intent carrying a non-numeric distance and a
\* non-string object name, planned for the unsafe robot among objects
C8_Witness ==
    /\ Called
    /\ LoweredIntent = <<"d","a","n","c","e">>
    /\ "distance" \in DOMAIN user_intent.parameters
    /\ user_intent.parameters["distance"].kind = "str"
    /\ "object" \in DOMAIN user_intent.parameters
    /\ user_intent.parameters["object"].kind = "num"
    /\ Len(environmental_context.objects) = 2
    /\ planner_robot.safety_status = "unsafe"
    /\ ~generated[1].raised
    /\ Len(generated[1].plan[1].actions) = 1

\* the environment object at position k matches the requested object name
Matches(k) ==
    Contains(Lower(user_intent.parameters["object"].s),
             Lower(environmental_context.objects[k].type))

\* C9: for a manipulation intent with both "object" and "action", if some
\* environment object's type case-insensitively contains the object name, the
\* plan has exactly two actions: a NAVIGATION navigate_to (approach distance
\* 0.5) targeting the first such object in list order, then a MANIPULATION
\* action with the requested action name and dependencies == ["action_0"].
C9_ApproachThenManipulate ==
    (/\ Called
     /\ LoweredIntent = <<"m","a","n","i","p","u","l","a","t","i","o","n">>
     /\ {"object", "action"} \subseteq DOMAIN user_intent.parameters
     /\ user_intent.parameters["object"].kind = "str"
     /\ \E k \in 1..Len(environmental_context.objects) : Matches(k))
    =>
        /\ ~generated[1].raised
        /\ LET acts == generated[1].plan[1].actions
           IN  /\ Len(acts) = 2
               /\ acts[1].type = "navigation"
               /\ acts[1].parameters["action"]
                      = StrV(<<"n","a","v","i","g","a","t","e","_","t","o">>)
               /\ acts[1].parameters["approach_distance"] = NumV(5)
               /\ \E k \in 1..Len(environmental_context.objects) :
                      /\ Matches(k)
                      /\ \A m \in 1..(k - 1) : ~Matches(m)
                      /\ acts[1].parameters["target_position"]
                             = PosV(environmental_context.objects[k].position)
                      /\ acts[2].parameters["object_id"]
                             = StrV(environmental_context.objects[k].id)
               /\ acts[2].type = "manipulation"
               /\ acts[2].parameters["action"] = user_intent.parameters["action"]
               /\ acts[2].dependencies = <<<<"a","c","t","i","o","n","_","0">>>>

\* C9 witness: "CUP" requested with the cupboard listed before the "Red Cup":
\* both match, the cupboard (position 2) is approached
C9_Witness ==
    /\ Called
    /\ LoweredIntent = <<"m","a","n","i","p","u","l","a","t","i","o","n">>
    /\ {"object", "action"} \subseteq DOMAIN user_intent.parameters
    /\ user_intent.parameters["object"] = StrV(<<"C","U","P">>)
    /\ Len(environmental_context.objects) = 2
    /\ environmental_context.objects[1].position = 2
    /\ environmental_context.objects[2].position = 1
    /\ ~generated[1].raised
    /\ generated[1].plan[1].actions[1].parameters["target_position"] = PosV(2)
    /\ generated[1].plan[1].actions[2].dependencies
           = <<<<"a","c","t","i","o","n","_","0">>>>

\* C10 (as stated): for a navigation intent generate_action_plan returns
\* exactly one NAVIGATION action chosen by the priority location ->
\* navigate_to; else direction and distance -> move_direction carrying both;
\* else direction -> move_toward; else move_forward with distance 1.0.
C10_NavigationPriority ==
    (Called /\ LoweredIntent = <<"n","a","v","i","g","a","t","i","o","n">>) =>
        /\ ~generated[1].raised
        /\ LET acts == generated[1].plan[1].actions
               ps == user_intent.parameters
               name == acts[1].parameters["action"].s
           IN  /\ Len(acts) = 1
               /\ acts[1].type = "navigation"
               /\ IF "location" \in DOMAIN ps
                  THEN name = <<"n","a","v","i","g","a","t","e","_","t","o">>
                  ELSE IF {"direction", "distance"} \subseteq DOMAIN ps
                  THEN /\ name = <<"m","o","v","e","_","d","i","r","e","c","t","i","o","n">>
                       /\ acts[1].parameters["direction"] = ps["direction"]
                       /\ acts[1].parameters["distance"] = ps["distance"]
                  ELSE IF "direction" \in DOMAIN ps
                  THEN name = <<"m","o","v","e","_","t","o","w","a","r","d">>
                  ELSE /\ name = <<"m","o","v","e","_","f","o","r","w","a","r","d">>
                       /\ acts[1].parameters["distance"] = NumV(10)

\* the plan generate_action_plan returned
ReturnedPlan == generated[1].plan[1]

PlanReturned == Called /\ ~generated[1].raised

\* the actions of the returned plan that are of the given type / that are
\* navigation actions with and without a "distance" parameter
OfType(t) == {k \in 1..Len(ReturnedPlan.actions) : ReturnedPlan.actions[k].type = t}

WithDistance == {k \in OfType("navigation") :
                    "distance" \in DOMAIN ReturnedPlan.actions[k].parameters}

\* C11 (as stated): the estimated_duration of a returned plan is 5.0 s per
\* action, plus 3.0 s per MANIPULATION action, plus 0.5 s per metre of the
\* "distance" of each NAVIGATION action that has one; a NAVIGATION action
\* without "distance" adds nothing to its 5.0 s.  (twentieths of a second)
C11_AsStated ==
    PlanReturned =>
        ReturnedPlan.estimated_duration
            = 100 * Len(ReturnedPlan.actions)
              + 60 * Cardinality(OfType("manipulation"))
              + SumOver([k \in WithDistance |->
                            ReturnedPlan.actions[k].parameters["distance"].n],
                        WithDistance)

\* C11 (amended): as above, except that a NAVIGATION action without
\* "distance" is costed as if its distance were 1.0 m, i.e. adds 0.5 s.
C11_EstimatedDuration ==
    PlanReturned =>
        ReturnedPlan.estimated_duration
            = 100 * Len(ReturnedPlan.actions)
              + 60 * Cardinality(OfType("manipulation"))
              + SumOver([k \in WithDistance |->
                            ReturnedPlan.actions[k].parameters["distance"].n],
                        WithDistance)
              + 10 * Cardinality(OfType("navigation") \ WithDistance)

\* C11 witness: the approach-then-manipulate plan, whose navigate_to has no
\* "distance": 2 * 5.0 + 3.0 + 0.5 = 13.5 s
C11_Witness ==
    /\ PlanReturned
    /\ Len(ReturnedPlan.actions) = 2
    /\ OfType("manipulation") = {2}
    /\ OfType("navigation") = {1}
    /\ WithDistance = {}
    /\ ReturnedPlan.estimated_duration = 270

\* C12 (as stated): estimated_duration >= 0 for every plan generate_action_plan
\* returns, whatever the intent and the parameter values, any number supplied
\* as the navigation "distance" included.
C12_NonNegativeDuration ==
    PlanReturned => ReturnedPlan.estimated_duration >= 0

\* C13: in every returned plan each dependency is "action_<j>" for an index j
\* strictly smaller than the index of the action declaring it, and the only
\* action with a non-empty dependency list is the MANIPULATION action of a
\* two-action manipulation plan.
C13_DependenciesPointBack ==
    PlanReturned =>
        \A k \in 1..Len(ReturnedPlan.actions) :
            LET deps == ReturnedPlan.actions[k].dependencies
            IN  /\ \A d \in 1..Len(deps) :
                       \E j \in 0..(k - 2) :
                           deps[d] = <<"a","c","t","i","o","n","_">> \o IntToStr(j)
                /\ deps # <<>> =>
                       /\ LoweredIntent = <<"m","a","n","i","p","u","l","a","t","i","o","n">>
                       /\ Len(ReturnedPlan.actions) = 2
                       /\ k = 2
                       /\ ReturnedPlan.actions[k].type = "manipulation"

\* C13 witness: a returned two-action plan whose second action declares a
\* dependency
C13_Witness ==
    /\ PlanReturned
    /\ Len(ReturnedPlan.actions) = 2
    /\ ReturnedPlan.actions[1].dependencies = <<>>
    /\ Len(ReturnedPlan.actions[2].dependencies) = 1

\* C18 (as stated): for a recognised intent generate_action_plan raises no
\* exception, whichever keys are absent and whatever kind the values have; a
\* manipulation intent without both "object" and "action" yields the single
\* MANIPULATION action "idle" with reason "insufficient_parameters", and one
\* whose object matches no environment object yields the single DETECTION
\* action "search_for_object".
C18_DegradesToDefault ==
    (Called /\ LoweredIntent \in RecognisedIntents) =>
        /\ ~generated[1].raised
        /\ LoweredIntent = <<"m","a","n","i","p","u","l","a","t","i","o","n">> =>
               LET ps == user_intent.parameters
                   acts == ReturnedPlan.actions
               IN  IF ~({"object", "action"} \subseteq DOMAIN ps)
                   THEN /\ Len(acts) = 1
                        /\ acts[1].type = "manipulation"
                        /\ acts[1].parameters["action"] = StrV(<<"i","d","l","e">>)
                        /\ acts[1].parameters["reason"]
                               = StrV(<<"i","n","s","u","f","f","i","c","i","e","n","t","_",
                                        "p","a","r","a","m","e","t","e","r","s">>)
                   ELSE (ps["object"].kind # "str"
                         \/ \A k \in 1..Len(environmental_context.objects) : ~Matches(k))
                        => /\ Len(acts) = 1
                           /\ acts[1].type = "detection"
                           /\ acts[1].parameters["action"]
                                  = StrV(<<"s","e","a","r","c","h","_","f","o","r","_",
                                           "o","b","j","e","c","t">>)

(***************************************************************************)
(* Claims about dependencies at execution time                             *)
(***************************************************************************)
\* C20: execute_action_plan never consults an action's dependencies: every
\* action is executed, and its recorded outcome is the outcome the same action
\* has with an empty dependency list, even when the dependency failed, has not
\* run yet, or names no action of the plan.
C20_DependenciesIgnored ==
    /\ \A k \in 1..Len(results) :
           results[k] = execute_single_action(
                            [action_plan.actions[k] EXCEPT !.dependencies = <<>>],
                            k - 1).result
    /\ Returned => Len(results) = Len(action_plan.actions)

\* C20 witness: the second action depends on "action_0", which failed, and
\* succeeds; the third depends on "action_5", which the plan does not have,
\* and was executed too
C20_Witness ==
    /\ Returned
    /\ Len(action_plan.actions) = 3
    /\ results[1].status = "failed"
    /\ action_plan.actions[2].dependencies = <<<<"a","c","t","i","o","n","_","0">>>>
    /\ results[2].status = "success"
    /\ action_plan.actions[3].dependencies = <<<<"a","c","t","i","o","n","_","5">>>>
    /\ Len(results) = 3

(***************************************************************************)
(* Claims about validate_action_plan                                       *)
(***************************************************************************)
Validated == validation_errors # <<>>

\* the (action, position in its dependency list) pairs whose dependency string
\* is not "action_<j>" for any 0 <= j < len(actions)
InvalidDependencies ==
    {kd \in UNION {{<<k, d>> : d \in 1..Len(action_plan.actions[k].dependencies)} :
                      k \in 1..Len(action_plan.actions)} :
        \A j \in 0..(Len(action_plan.actions) - 1) :
            action_plan.actions[kd[1]].dependencies[kd[2]]
                # <<"a","c","t","i","o","n","_">> \o IntToStr(j)}

InvalidTypes ==
    {k \in 1..Len(action_plan.actions) :
        action_plan.actions[k].type \notin {"navigation", "manipulation", "detection"}}

\* C14: validate_action_plan returns the empty list iff the plan has at least
\* one action, every action's type is an ActionType member and every
\* dependency equals "action_<j>" for some 0 <= j < len(actions); otherwise it
\* returns one error per defect, the error for an invalid dependency naming
\* the action and the dependency string.
C14_ValidationErrors ==
    Validated =>
        LET errors == validation_errors[1]
        IN  /\ errors = <<>> <=>
                   /\ Len(action_plan.actions) >= 1
                   /\ InvalidTypes = {}
                   /\ InvalidDependencies = {}
            /\ Len(errors) = (IF action_plan.actions = <<>> THEN 1 ELSE 0)
                             + Cardinality(InvalidTypes)
                             + Cardinality(InvalidDependencies)
            /\ \A kd \in InvalidDependencies :
                   \E e \in 1..Len(errors) :
                       /\ errors[e].text = "Invalid dependency"
                       /\ errors[e].index = <<kd[1] - 1>>
                       /\ errors[e].arg
                              = <<action_plan.actions[kd[1]].dependencies[kd[2]]>>
            /\ \A k \in InvalidTypes :
                   \E e \in 1..Len(errors) :
                       /\ errors[e].text = "Invalid action type"
                       /\ errors[e].index = <<k - 1>>

\* C14 witness: a two-action plan whose only defect is the dependency
\* "action_5": exactly one error, naming it
C14_Witness ==
    /\ Validated
    /\ Len(action_plan.actions) = 2
    /\ InvalidTypes = {}
    /\ Len(validation_errors[1]) = 1
    /\ validation_errors[1][1].text = "Invalid dependency"
    /\ validation_errors[1][1].arg = <<<<"a","c","t","i","o","n","_","5">>>>

(***************************************************************************)
(* Claims about robust_process_audio                                       *)
(***************************************************************************)
\* positions of the log at which an attempt was invoked / ended
Invocations == {p \in 1..Len(attempt_log) : attempt_log[p].ev = "attempt"}

Outcomes == {p \in 1..Len(attempt_log) :
                attempt_log[p].ev \in {"processing", "failed", "raised"}}

RobustReturned == retry_pc = "returned"

\* C15 (as stated, its safety part): for max_retries >= 0 the attempt is
\* invoked at most max_retries + 1 times, 4 times when max_retries is omitted;
\* the call returns at the first attempt whose result is not FAILED, with that
\* result, and otherwise only after the final attempt.
C15_AtMostMaxRetriesPlusOne ==
    LET allowed == IF max_retries = <<>> THEN 4 ELSE max_retries[1] + 1
    IN  /\ Cardinality(Invocations) <= allowed
        /\ \A p \in Outcomes :
               attempt_log[p].ev = "processing" =>
                   /\ p = Len(attempt_log)
                   /\ RobustReturned
                   /\ robust_result[1].status = "processing"
        /\ RobustReturned =>
               \/ attempt_log[Len(attempt_log)].ev = "processing"
               \/ Cardinality(Invocations) = allowed

\* C16 (as stated): between two consecutive attempts there is a backoff sleep
\* of 2^attempt seconds, attempt being the zero-based index of the attempt that
\* just failed, whether it raised or returned FAILED; no sleep follows the
\* final attempt.
C16_BackoffBetweenAttempts ==
    /\ \A p, q \in Invocations :
           (p < q /\ ~\E r \in Invocations : p < r /\ r < q) =>
               \E z \in (p + 1)..(q - 1) :
                   attempt_log[z] = Event("sleep", 2^(attempt_log[p].n), <<>>)
    /\ RobustReturned => attempt_log[Len(attempt_log)].ev # "sleep"

\* C17: robust_process_audio never lets an exception out; when every attempt
\* raised, it returns a VoiceCommand with empty text, confidence 0.0, status
\* FAILED and parameters["error"] equal to the message of the last exception.
C17_FailedCommandNotException ==
    /\ retry_pc # "raised"
    /\ (RobustReturned /\ \A p \in Outcomes : attempt_log[p].ev = "raised") =>
           /\ robust_result[1].status = "failed"
           /\ robust_result[1].text = <<>>
           /\ robust_result[1].confidence = Rat(0, 1)
           /\ DOMAIN robust_result[1].parameters = {"error"}
           /\ robust_result[1].parameters["error"]
                  = StrV(attempt_log[Len(attempt_log)].msg)
    /\ RobustReturned => Len(robust_result) = 1

\* C17 witness: max_retries = 2, three attempts, all raising, the first with
\* "timeout" and the last with "no audio", which is the error reported
C17_Witness ==
    /\ RobustReturned
    /\ max_retries = <<2>>
    /\ Cardinality(Invocations) = 3
    /\ \A p \in Outcomes : attempt_log[p].ev = "raised"
    /\ attempt_log[2].msg = <<"t","i","m","e","o","u","t">>
    /\ robust_result[1].parameters["error"] = StrV(<<"n","o"," ","a","u","d","i","o">>)

(***************************************************************************)
(* Claims about process_text_command                                       *)
(***************************************************************************)
TextReturned == text_result # <<>>

\* the validator accepts the text with the confidence given
PassesValidation ==
    validator_validate_voice_command(
        VoiceCommand(command_text, text_confidence, <<>>, <<>>, "pending")).is_valid

\* C19 (as stated): for a text command that passes validation,
\* process_text_command returns a VoiceCommand whose status is COMPLETED, which
\* is what the acceptance tests require of it.
C19_ValidatedTextCompleted ==
    (TextReturned /\ PassesValidation) =>
        text_result[1].voice_command.status = "completed"

(***************************************************************************)
(* Claims about the dispatch on sub-action names                           *)
(***************************************************************************)
\* the recognised (type, sub-action name) pairs
RecognisedTable ==
    [navigation |->
        {<<"n","a","v","i","g","a","t","e","_","t","o">>,
         <<"m","o","v","e","_","d","i","r","e","c","t","i","o","n">>,
         <<"m","o","v","e","_","t","o","w","a","r","d">>,
         <<"m","o","v","e","_","f","o","r","w","a","r","d">>,
         <<"s","t","o","p">>},
     manipulation |->
        {<<"p","i","c","k","_","u","p">>, <<"g","r","a","s","p">>,
         <<"t","a","k","e">>, <<"g","r","a","b">>, <<"p","l","a","c","e">>,
         <<"p","u","t","_","d","o","w","n">>, <<"r","e","l","e","a","s","e">>,
         <<"d","r","o","p">>, <<"m","o","v","e","_","a","r","m">>,
         <<"i","d","l","e">>},
     detection |->
        {<<"d","e","t","e","c","t","_","o","b","j","e","c","t","s">>,
         <<"s","c","a","n","_","e","n","v","i","r","o","n","m","e","n","t">>,
         <<"r","e","p","o","r","t","_","s","t","a","t","u","s">>,
         <<"s","e","a","r","c","h","_","f","o","r","_","o","b","j","e","c","t">>}]

UnknownFamilyAction ==
    [navigation |-> "Unknown navigation action: ",
     manipulation |-> "Unknown manipulation action: ",
     detection |-> "Unknown detection action: "]

\* the k-th action's (type, name) pair is in the table
Recognised(k) ==
    LET a == action_plan.actions[k]
    IN  /\ a.type \in DOMAIN RecognisedTable
        /\ "action" \in DOMAIN a.parameters
        /\ a.parameters["action"].kind = "str"
        /\ a.parameters["action"].s \in RecognisedTable[a.type]

\* C21: an executed action's result is "success" exactly when its (type,
\* sub-action name) pair is in the recognised table; for an action of one of
\* the three types with any other name, or none, it is "failed" with details
\* "Unknown <family> action: <name>"; a name of another type's table is not
\* accepted.
C21_RecognisedTable ==
    \A k \in 1..Len(results) :
        LET a == action_plan.actions[k]
        IN  /\ results[k].status = "success" <=> Recognised(k)
            /\ (a.type \in DOMAIN RecognisedTable /\ ~Recognised(k)) =>
                   /\ results[k].status = "failed"
                   /\ results[k].details.text = UnknownFamilyAction[a.type]
                   /\ "action" \in DOMAIN a.parameters =>
                          results[k].details.arg = a.parameters["action"]

\* C21 witness: the manipulation name "pick_up" given to a NAVIGATION action
\* was refused as "Unknown navigation action: pick_up"
C21_Witness ==
    /\ Returned
    /\ Len(action_plan.actions) = 1
    /\ action_plan.actions[1].type = "navigation"
    /\ "action" \in DOMAIN action_plan.actions[1].parameters
    /\ action_plan.actions[1].parameters["action"] = StrV(<<"p","i","c","k","_","u","p">>)
    /\ results[1].status = "failed"
    /\ results[1].details.text = "Unknown navigation action: "
    /\ results[1].details.arg = StrV(<<"p","i","c","k","_","u","p">>)

(***************************************************************************)
(* Claims about the safety check between actions                           *)
(***************************************************************************)
\* C22: with enable_safety_protocols the safety check is invoked once after
\* each action has completed and before the next one starts, the last action
\* included, so a returned call has made one check per action; without it no
\* check is ever invoked; and a check changes no result, no plan and does not
\* end the call.
C22_SafetyCheckPerAction ==
    /\ [](/\ ~config.enable_safety_protocols => safety_checks = 0
          /\ config.enable_safety_protocols =>
                 /\ safety_checks = IF pc = "appended"
                                    THEN Len(results) - 1 ELSE Len(results)
                 /\ Len(started) <= safety_checks + 1
                 /\ Returned => safety_checks = Len(action_plan.actions))
    /\ [][safety_checks' # safety_checks =>
              /\ safety_checks' = safety_checks + 1
              /\ pc = "appended"
              /\ pc' = "loop"
              /\ results' = results
              /\ action_plan' = action_plan
              /\ execution_result' = execution_result]_vars

\* C22 witness: three actions executed with the protocols enabled, the last
\* one failing, and three checks made
C22_Witness ==
    /\ Returned
    /\ config.enable_safety_protocols
    /\ Len(action_plan.actions) = 3
    /\ results[3].status = "failed"
    /\ safety_checks = 3

(***************************************************************************)
(* Claims about what a plan depends on                                     *)
(***************************************************************************)
\* C23: two generate_action_plan calls whose arguments have the same
\* lower-cased primary intent, the same parameters, the same environment
\* objects and the same robot position - and differ in strategy, letter case of
\* primary_intent, battery, capabilities, safety status or obstacles - both
\* raise or both return, and the returned plans have identical action lists and
\* estimated durations.
C23_PlanDependsOnFourInputs ==
    (/\ Called
     /\ Lower(second_call[1].user_intent.primary_intent) = LoweredIntent
     /\ second_call[1].user_intent.parameters = user_intent.parameters
     /\ second_call[1].environmental_context.objects = environmental_context.objects
     /\ second_call[1].robot_state.position = planner_robot.position)
    =>
        /\ second_call[1].generated.raised = generated[1].raised
        /\ ~generated[1].raised =>
               /\ second_call[1].generated.plan[1].actions = ReturnedPlan.actions
               /\ second_call[1].generated.plan[1].estimated_duration
                      = ReturnedPlan.estimated_duration

\* C23 witness: two calls that differ in strategy, letter case, robot health
\* and obstacles at once, both returning the two-action manipulation plan
C23_Witness ==
    /\ PlanReturned
    /\ second_call[1].strategy # strategy
    /\ second_call[1].user_intent.primary_intent # user_intent.primary_intent
    /\ second_call[1].robot_state.battery_level # planner_robot.battery_level
    /\ second_call[1].robot_state.safety_status # planner_robot.safety_status
    /\ second_call[1].environmental_context.obstacles # environmental_context.obstacles
    /\ Len(ReturnedPlan.actions) = 2
    /\ ReturnedPlan.actions[2].type = "manipulation"
    /\ second_call[1].generated.plan[1].actions = ReturnedPlan.actions

(***************************************************************************)
(* Claims about concurrent calls                                           *)
(***************************************************************************)
\* the results a call on this plan produces when it runs alone
SoloResults(plan) ==
    [k \in 1..Len(plan.actions) |->
        execute_single_action(plan.actions[k], k - 1).result]

\* C24: of two execute_action_plan calls on different plans, interleaved at
\* their suspension points on one ActionExecutor, each records exactly the
\* results of its own plan's actions in its own plan's order, and returns
\* them with the overall_status they determine and its own plan's id; the
\* status of its plan is PROCESSING from its start on.  Nothing of this
\* depends on the other call.
C24_CallsDoNotInterfere ==
    \A c \in DOMAIN calls :
        LET f == calls[c]
            solo == SoloResults(f.action_plan)
        IN  /\ Len(f.results) <= Len(solo)
            /\ f.results = SubSeq(solo, 1, Len(f.results))
            /\ f.pc # "idle" => f.action_plan.status = "processing"
            /\ f.pc = "returned" =>
                   f.execution_result
                       = <<ExecutionResult(f.action_plan.id, solo, OverallStatus(solo))>>

\* C24 witness: both calls are suspended in their second action, each with
\* its first result recorded, a failure for one and a success for the other
C24_Witness ==
    /\ calls # <<>>
    /\ calls[1].pc = "sleeping"
    /\ calls[1].i = 1
    /\ calls[1].results[1].status = "failed"
    /\ calls[2].pc = "sleeping"
    /\ calls[2].i = 1
    /\ calls[2].results[1].status = "success"

(***************************************************************************)
(* Claims about process_audio_to_command                                   *)
(***************************************************************************)
AudioReturned == audio_pc = "returned"

\* the call ended in capture, file validation or transcription
FailedBeforeCommand == AudioReturned /\ transcription = <<>>

\* the call got a transcription and the validation asked for rejected it
RejectedByValidation ==
    /\ AudioReturned
    /\ transcription # <<>>
    /\ validate
    /\ ~validator_validate_voice_command(
            VoiceCommand(transcription[1].text, transcription[1].confidence,
                         <<>>, <<>>, "processing")).is_valid

\* C25 (as stated): process_audio_to_command never raises, and any error in
\* capture, file validation, transcription or command validation yields a
\* returned VoiceCommand with status FAILED, empty text and confidence 0.0.
C25_AsStated ==
    /\ audio_pc # "raised"
    /\ (FailedBeforeCommand \/ RejectedByValidation) =>
           /\ audio_result[1].status = "failed"
           /\ audio_result[1].text = <<>>
           /\ audio_result[1].confidence.num = 0

\* C25 (amended): process_audio_to_command never raises; an error in capture,
\* file validation or transcription yields a returned VoiceCommand with status
\* FAILED, empty text and confidence 0.0; a command the validation rejects is
\* returned with status FAILED too, but with the transcribed text and the
\* validator's adjusted confidence; and the returned status is FAILED in
\* these cases only.
C25_FailsByReturning ==
    /\ audio_pc # "raised"
    /\ FailedBeforeCommand =>
           /\ audio_result[1].status = "failed"
           /\ audio_result[1].text = <<>>
           /\ audio_result[1].confidence.num = 0
    /\ RejectedByValidation =>
           /\ audio_result[1].status = "failed"
           /\ audio_result[1].text = transcription[1].text
           /\ audio_result[1].confidence
                  = calculate_text_confidence(transcription[1].text,
                                              transcription[1].confidence)
    /\ AudioReturned =>
           /\ Len(audio_result) = 1
           /\ audio_result[1].status = "failed"
                  <=> (FailedBeforeCommand \/ RejectedByValidation)

\* C25 witness: "um" was transcribed with confidence 0.85 and rejected: the
\* command returned is FAILED and still carries the text
C25_Witness ==
    /\ AudioReturned
    /\ RejectedByValidation
    /\ transcription[1] = [text |-> <<"u","m">>, confidence |-> Rat(85, 100)]
    /\ audio_result[1].status = "failed"
    /\ audio_result[1].text = <<"u","m">>

(***************************************************************************)
(* Claims about SequentialWorkflow.execute                                 *)
(***************************************************************************)
\* the executed steps that failed although required
RequiredFailures ==
    {k \in 1..Len(step_log) : ~step_log[k].success /\ steps[k].required}

\* the steps run in insertion order and none after a failed required one
RunInOrder ==
    /\ \A k \in 1..Len(step_log) : step_log[k].index = k - 1
    /\ \A k \in RequiredFailures : k = Len(step_log)

\* C26 (as stated): SequentialWorkflow.execute runs its steps in insertion
\* order and stops at the first required step that fails: it returns success
\* False, no later step is executed, and step_results has entries exactly for
\* the steps up to and including the failed one; a failing non-required step
\* does not stop it, and if no required step fails it returns success True
\* with an entry for every step.
C26_StopsAtFirstRequiredFailure ==
    /\ RunInOrder
    /\ workflow_pc = "returned" =>
           /\ workflow_result[1].success = (RequiredFailures = {})
           /\ RequiredFailures = {} => Len(step_log) = Len(steps)
           /\ Cardinality(DOMAIN workflow_result[1].step_results) = Len(step_log)
           /\ \A k \in 1..Len(step_log) :
                  /\ steps[k].name \in DOMAIN workflow_result[1].step_results
                  /\ workflow_result[1].step_results[steps[k].name].success
                         = step_log[k].success

(***************************************************************************)
(* Claims about the plan's status                                          *)
(***************************************************************************)
\* C27: execute_action_plan sets the plan's status to PROCESSING before the
\* first action and the status is still PROCESSING when the call returns,
\* whatever the overall_status: the executor never moves the plan to
\* COMPLETED or FAILED.
C27_PlanStaysProcessing ==
    /\ pc # "idle" => action_plan.status = "processing"
    /\ Returned => action_plan.status \notin {"completed", "failed"}

\* a call on a pending plan has returned overall_status "success"
C27_Witness ==
    /\ Returned
    /\ Len(results) = 2
    /\ execution_result[1].overall_status = "success"
    /\ action_plan.status = "processing"

(***************************************************************************)
(* Claims about the planner's plans under the executor                     *)
(***************************************************************************)
\* C28 (as stated): every action generate_action_plan emits carries an
\* 'action' name the executor recognises for its type, so executing an
\* unfiltered planner plan, the 'wait' fallback and the handed-through
\* manipulation names included, yields no 'failed' result.
C28_PlannerPlansExecute ==
    \A k \in 1..Len(results) : results[k].status # "failed"

(***************************************************************************)
(* Claims about dependencies after filtering                               *)
(***************************************************************************)
\* C29 (as stated): enforce_safety_constraints preserves the well-formedness
\* of dependencies: for an input plan in which every dependency 'action_<j>'
\* refers to an earlier action, every dependency in the returned plan still
\* refers to an earlier action of the returned plan, and to the same action
\* as before filtering.
C29_DependenciesPreserved ==
    (safe_plan # <<>> /\ WellFormed(plan_before[1].actions)) =>
        LET before == plan_before[1].actions
            after == safe_plan[1].actions
        IN  \A k \in 1..Len(after) :
                \A d \in 1..Len(after[k].dependencies) :
                    \E j \in 0..(k - 2) :
                        /\ after[k].dependencies[d] = PositionalId(j)
                        /\ after[j + 1] = before[j + 1]

(***************************************************************************)
(* Claims about the results' identifiers                                   *)
(***************************************************************************)
\* C30 (as stated): the i-th ActionResult of an execution has action_id
\* 'action_<i>' (i counted from 0), for every action type and every outcome.
C30_ResultsCarryPositionalId ==
    \A k \in 1..Len(results) : results[k].action_id = PositionalId(k - 1)

====
